---- MODULE Spec2Model ----
(***************************************************************************)
(* Locomotive traction and performance engine of the vehicle_performance   *)
(* tool (app/tools/vehicle_performance): resistance model, torque-curve    *)
(* interpolation, the curve sweep, the shunting speed scan, the input      *)
(* schema and the /calculate request pipeline.                             *)
(*                                                                         *)
(* Numbers.  The code computes in IEEE doubles.  Here every real quantity  *)
(* is a fixed-point integer: unless a comment says otherwise a value x is  *)
(* held as the integer nearest to 1000 * x ("milli" units: 1250 is 1.25 m, *)
(* 9810 is 9.81).  Each assignment of the code is evaluated on its real    *)
(* value and rounded once to the grid (round to nearest), with wide        *)
(* intermediate products (MulDiv), so that no intermediate exceeds 2^31.   *)
(***************************************************************************)
EXTENDS Integers, Sequences, FiniteSets, TLC

(***************************************************************************)
(* Arithmetic support                                                      *)
(***************************************************************************)
\* "v = <expression>; <rest>": the rest F evaluated on the value assigned
Let(v, F(_)) == F(v)

Abs(x) == IF x < 0 THEN -x ELSE x

Sgn(x) == IF x < 0 THEN -1 ELSE IF x = 0 THEN 0 ELSE 1

Min2(x, y) == IF x <= y THEN x ELSE y

Max2(x, y) == IF x >= y THEN x ELSE y

\* nearest integer to n / d (ties away from zero); d # 0, |n| < 10^9
RDiv(n, d) == Sgn(n) * Sgn(d) * ((2 * Abs(n) + Abs(d)) \div (2 * Abs(d)))

\* digit base used to multiply wide numbers modulo z without overflow
DigitBase(z) == IF z <= 1024 THEN 1048576 ELSE 1073741824 \div z

\* <<q, r>> with x * y = q * z + r and 0 <= r < z, for x, y >= 0, z > 0
RECURSIVE MulDivRem(_, _, _, _)
MulDivRem(x, y, z, K) ==
    IF y = 0 THEN <<0, 0>>
    ELSE LET p == MulDivRem(x, y \div K, z, K)
             d == y % K
             t == K * p[2] + (x % z) * d
         IN  <<K * p[1] + (t \div z) + (x \div z) * d, t % z>>

\* nearest integer to a * b / c (ties away from zero), c # 0
MulDiv(a, b, c) ==
    LET x == Max2(Abs(a), Abs(b))
        y == Min2(Abs(a), Abs(b))
        z == Abs(c)
        p == MulDivRem(x, y, z, DigitBase(z))
    IN  Sgn(a) * Sgn(b) * Sgn(c) * (p[1] + (IF 2 * p[2] >= z THEN 1 ELSE 0))

\* nearest multiple of unit to x, ties to the even multiple
RoundTo(x, unit) ==
    LET a == Abs(x)
        q == a \div unit
        r == a % unit
        up == 2 * r > unit \/ (2 * r = unit /\ q % 2 = 1)
    IN  Sgn(x) * unit * (IF up THEN q + 1 ELSE q)

\* Python round(x, 2) of a milli value
Round2(x) == RoundTo(x, 10)

\* Python round(v, 2) of a speed held in 10^-6: the result is milli
Round2Speed(v) == RoundTo(v, 10000) \div 1000

\* math.pi in units of 10^-6
PiMicro == 3141593

(***************************************************************************)
(* Core physics functions (service.py).  Weights in tonnes, forces in N,   *)
(* slope in percent, curve in degrees: all milli.  Speeds (km/h) are held  *)
(* in units of 10^-6, polynomial coefficients A, B, C in units of 10^-8.   *)
(***************************************************************************)
rolling_resistance_loco(speed_kmh, weight_ton, num_axles) ==
    IF weight_ton <= 0 \/ num_axles <= 0 THEN 0
    ELSE LET axle_load == RDiv(weight_ton * 1000, num_axles)       \* 10^-6 t
             A == 64700000 + MulDiv(1317000000, 1000000, axle_load)
             B == 933000
             C == MulDiv(5700000, 1000, weight_ton)
             poly == A + MulDiv(B, speed_kmh, 1000000)
                       + MulDiv(MulDiv(C, speed_kmh, 1000000), speed_kmh,
                                1000000)
         IN  MulDiv(MulDiv(poly, weight_ton, 1000000), 981, 10000)

rolling_resistance_wagon(speed_kmh, weight_ton) ==
    IF weight_ton <= 0 THEN 0
    ELSE LET A == 64387970
             B == 1047218
             C == 7323
             poly == A + MulDiv(B, speed_kmh, 1000000)
                       + MulDiv(MulDiv(C, speed_kmh, 1000000), speed_kmh,
                                1000000)
         IN  MulDiv(MulDiv(poly, weight_ton, 1000000), 981, 10000)

gradient_resistance(weight_ton, slope_percent) ==
    MulDiv(weight_ton, slope_percent * 981, 10000)

curvature_resistance(weight_ton, curve_degree) ==
    MulDiv(weight_ton, curve_degree * 3924, 1000000)

\* faulty variant of the starting resistances: no breakaway term
no_starting_resistance(weight_ton) == 0

starting_resistance_loco(weight_ton) == MulDiv(weight_ton, 5886, 100)

starting_resistance_wagon(weight_ton) == MulDiv(weight_ton, 3924, 100)

(***************************************************************************)
(* Torque curve.  A Python dict {rpm: torque} is the sequence of its       *)
(* <<rpm, torque>> items in insertion order, with distinct integer rpm     *)
(* keys and milli torques.  A torque_curve field is a record               *)
(* [kind |-> "dict", items |-> <<...>>] or [kind |-> "None", items |-> <<>>]*)
(***************************************************************************)
NoneCurve == [kind |-> "None", items |-> <<>>]

DictCurve(items) == [kind |-> "dict", items |-> items]

\* Python truthiness of a torque_curve value: None and {} are falsy
Truthy(curve) == curve.kind = "dict" /\ Len(curve.items) > 0

CurveKeys(items) == {items[i][1] : i \in 1..Len(items)}

\* curve[r]
CurveGet(items, r) == items[CHOOSE i \in 1..Len(items) : items[i][1] = r][2]

SetMin(S) == CHOOSE x \in S : \A y \in S : x <= y

SetMax(S) == CHOOSE x \in S : \A y \in S : x >= y

\* sorted(keys)
RECURSIVE sorted(_)
sorted(S) == IF S = {} THEN <<>> ELSE <<SetMin(S)>> \o sorted(S \ {SetMin(S)})

\* faulty variant of np_interp: the end segments are extended beyond the
\* first and last point instead of being clamped
np_interp_extrapolate(x, xp, fp) ==
    LET n == Len(xp)
        j == IF n = 1 \/ x < 1000 * xp[1] THEN 1
             ELSE IF x >= 1000 * xp[n] THEN n - 1
             ELSE CHOOSE k \in 1..(n - 1) :
                      1000 * xp[k] <= x /\ x < 1000 * xp[k + 1]
    IN  IF n = 1 THEN fp[1]
        ELSE fp[j] + MulDiv(fp[j + 1] - fp[j], x - 1000 * xp[j],
                            1000 * (xp[j + 1] - xp[j]))

\* numpy.interp(x, xp, fp) for ascending xp (x and fp milli, xp whole rpm)
np_interp(x, xp, fp) ==
    LET n == Len(xp)
    IN  IF x <= 1000 * xp[1] THEN fp[1]
        ELSE IF x >= 1000 * xp[n] THEN fp[n]
        ELSE LET j == CHOOSE k \in 1..(n - 1) :
                          1000 * xp[k] <= x /\ x < 1000 * xp[k + 1]
             IN  fp[j] + MulDiv(fp[j + 1] - fp[j], x - 1000 * xp[j],
                                1000 * (xp[j + 1] - xp[j]))

\* faulty variant of InterpolateSorted: the keys are taken in insertion
\* order, without sorted()
InterpolateInsertionOrder(engine_rpm, items) ==
    np_interp(engine_rpm,
              [i \in 1..Len(items) |-> items[i][1]],
              [i \in 1..Len(items) |-> items[i][2]])

\* rpms = sorted(curve.keys()); torques = [curve[r] for r in rpms];
\* np.interp(engine_rpm, rpms, torques)
InterpolateSorted(engine_rpm, items) ==
    Let(sorted(CurveKeys(items)), LAMBDA rpms :
    Let([i \in 1..Len(rpms) |-> CurveGet(items, rpms[i])], LAMBDA torques :
        np_interp(engine_rpm, rpms, torques)))

\* faulty variant of interpolate_torque: an empty curve yields torque 0.0
\* instead of an error
interpolate_torque_or_zero(engine_rpm, curve) ==
    IF ~Truthy(curve) THEN [err |-> "none", val |-> 0]
    ELSE [err |-> "none", val |-> InterpolateSorted(engine_rpm, curve.items)]

\* interpolate_torque: [err, val]; err = "ValueError" for an empty curve
interpolate_torque(engine_rpm, curve) ==
    IF ~Truthy(curve) THEN [err |-> "ValueError", val |-> 0]
    ELSE [err |-> "none", val |-> InterpolateSorted(engine_rpm, curve.items)]

(***************************************************************************)
(* VehiclePerformanceCalculator (service.py).  An inputs dict is a record  *)
(* whose DOMAIN is the set of keys present.  num_axles, min_rpm, max_rpm   *)
(* are whole numbers; gear_ratios is a sequence of milli ratios.           *)
(***************************************************************************)
\* dict.get(key, default)
Get(d, key, default) == IF key \in DOMAIN d THEN d[key] ELSE default

\* math.tan(math.radians(x)) * 100.0 (x milli degrees; series x + x^3/3)
TanPercent(x) ==
    LET theta == MulDiv(x, PiMicro, 180000)                    \* 10^-6 rad
        cube == MulDiv(MulDiv(theta, theta, 1000000), theta, 1000000)
    IN  RDiv((theta + RDiv(cube, 3)) * 100, 1000)

SeqMax(q) == SetMax({q[i] : i \in 1..Len(q)})

SeqMin(q) == SetMin({q[i] : i \in 1..Len(q)})

\* VehiclePerformanceCalculator.__init__: [err, calc]
NewCalculator(inputs) ==
    LET max_curve == Get(inputs, "max_curve", 0)
        max_curve_deg ==
            IF Get(inputs, "curve_unit", "") = "m" /\ max_curve # 0
            THEN MulDiv(1750000, 1000, max_curve) ELSE max_curve
        max_slope == Get(inputs, "max_slope", 0)
        max_slope_percent ==
            IF Get(inputs, "slope_unit", "") = "degree"
            THEN TanPercent(max_slope) ELSE max_slope
        loco_gvw_kg == Get(inputs, "loco_gvw_kg", 0)
        torque_curve == Get(inputs, "torque_curve", DictCurve(<<>>))
    IN  IF ~Truthy(torque_curve)
        THEN [err |-> "ValueError", calc |-> <<>>]
        ELSE [err |-> "none", calc |-> <<[
                 inputs |-> inputs,
                 max_curve_deg |-> max_curve_deg,
                 max_slope_percent |-> max_slope_percent,
                 loco_gvw_kg |-> loco_gvw_kg,
                 loco_gvw_ton |-> RDiv(loco_gvw_kg, 1000),
                 max_speed_kmh |-> Get(inputs, "max_speed_kmh", 0),
                 num_axles |-> Get(inputs, "num_axles", 1),
                 rear_axle_ratio |-> Get(inputs, "rear_axle_ratio", 1000),
                 gear_ratios |-> Get(inputs, "gear_ratios", <<1000>>),
                 shunting_load_t |-> Get(inputs, "shunting_load_t", 0),
                 peak_power_kw |-> Get(inputs, "peak_power_kw", 0),
                 friction_mu |-> Get(inputs, "friction_mu", 300),
                 wheel_dia_m |-> Get(inputs, "wheel_dia_m", 730),
                 min_rpm |-> Get(inputs, "min_rpm", 100),
                 max_rpm |-> Get(inputs, "max_rpm", 2500),
                 torque_curve |-> torque_curve,
                 max_torque_nm |->
                     SetMax({torque_curve.items[i][2] :
                                 i \in 1..Len(torque_curve.items)})]>>]

\* faulty variant of SlippingLimit: the factor 9.81 is missing
SlippingLimitWithoutGravity(c) == c.loco_gvw_ton * c.friction_mu

\* self.loco_gvw_ton * self.friction_mu * 1000.0 * 9.81
SlippingLimit(c) == MulDiv(c.loco_gvw_ton * c.friction_mu, 981, 100)

\* faulty variant of GeneratedForce: the factor 2 is missing
GeneratedForceHalved(c, torque, gear_ratio) ==
    MulDiv(torque, gear_ratio * c.rear_axle_ratio, c.wheel_dia_m * 1000)

\* 2 * (torque * gear_ratio * self.rear_axle_ratio) / self.wheel_dia_m
GeneratedForce(c, torque, gear_ratio) ==
    MulDiv(2 * torque, gear_ratio * c.rear_axle_ratio, c.wheel_dia_m * 1000)

\* run_tractive_calculation: [err, val]
run_tractive_calculation(c) ==
    IF c.wheel_dia_m = 0 THEN [err |-> "ValueError", val |-> <<>>]
    ELSE IF Len(c.gear_ratios) = 0 THEN [err |-> "ValueError", val |-> <<>>]
    ELSE LET max_traction_generated_n ==
                 GeneratedForce(c, c.max_torque_nm, SeqMax(c.gear_ratios))
             max_traction_slipping_n == SlippingLimit(c)
         IN  [err |-> "none", val |-> <<[
                 max_traction_generated_n |-> Max2(max_traction_generated_n, 0),
                 max_traction_slipping_n |-> Round2(max_traction_slipping_n),
                 result_message |->
                     IF max_traction_generated_n > max_traction_slipping_n
                     THEN "Limited by slipping"
                     ELSE "Not limited by slipping"]>>]

(***************************************************************************)
(* One sample of a sweep: speed -> engine rpm -> torque (power limited)    *)
(* -> generated force -> achievable force (service.py 431-448, 558-575).   *)
(***************************************************************************)
\* math.pi * self.wheel_dia_m, in 10^-6 m
WheelCirc(c) == MulDiv(PiMicro, c.wheel_dia_m, 1000)

\* (rpm * math.pi * wheel_dia_m) / (gear * rear_axle_ratio * 60.0) * 3.6
\* for a whole rpm; the speed is in 10^-6 km/h
SpeedAtRpm(c, rpm, gear_ratio) ==
    MulDiv(MulDiv(rpm, WheelCirc(c), 1000), 60000000,
           gear_ratio * c.rear_axle_ratio)

\* np.linspace(lo, hi, num)[i], i in 0..num-1
linspace(lo, hi, num, i) == lo + MulDiv(i, hi - lo, num - 1)

\* speed_kmh -> speed_mps -> wheel_rpm -> engine_rpm (milli rpm)
EngineRpm(c, speed_kmh, gear_ratio) ==
    LET speed_mps == MulDiv(speed_kmh, 10, 36)              \* 10^-6 m/s
        wheel_circ == WheelCirc(c)
    IN  IF wheel_circ > 0
        THEN MulDiv(MulDiv(speed_mps, gear_ratio * c.rear_axle_ratio,
                           wheel_circ), 6, 100)
        ELSE 0

\* (engine_rpm * torque * 2.0 * math.pi) / (60.0 * 1000.0), milli kW
PowerKw(engine_rpm, torque) ==
    MulDiv(MulDiv(engine_rpm, torque, 300000), PiMicro, 100000000)

\* (self.peak_power_kw * 60.0 * 1000.0) / (engine_rpm * 2.0 * math.pi)
PeakPowerTorque(c, engine_rpm) ==
    MulDiv(c.peak_power_kw, 30000000, MulDiv(engine_rpm, PiMicro, 1000000))

\* faulty variant of LimitTorque: the peak-power ceiling is not applied
LimitTorqueUncapped(c, engine_rpm, interpolated) == interpolated

\* the torque used at engine_rpm given the interpolated torque
LimitTorque(c, engine_rpm, interpolated) ==
    IF PowerKw(engine_rpm, interpolated) > c.peak_power_kw /\ engine_rpm > 0
    THEN PeakPowerTorque(c, engine_rpm)
    ELSE interpolated

\* faulty variant of ActualTraction: the adhesion limit is not applied
ActualTractionGenerated(generated, slipping) == generated

\* min(max_traction_generated_n, max_traction_slipping_n)
ActualTraction(generated, slipping) == Min2(generated, slipping)

\* the drivetrain part of a sample, shared by both sweeps
Drive(c, speed_kmh, gear_ratio) ==
    Let(EngineRpm(c, speed_kmh, gear_ratio), LAMBDA engine_rpm :
    Let(interpolate_torque(engine_rpm, c.torque_curve).val,
        LAMBDA interpolated :
    Let(LimitTorque(c, engine_rpm, interpolated), LAMBDA torque_at_rpm :
    Let(GeneratedForce(c, torque_at_rpm, gear_ratio), LAMBDA generated :
    Let(SlippingLimit(c), LAMBDA slipping :
        [engine_rpm |-> engine_rpm,
         interpolated |-> interpolated,
         torque_at_rpm |-> torque_at_rpm,
         max_traction_generated_n |-> generated,
         max_traction_slipping_n |-> slipping,
         actual_traction_n |-> ActualTraction(generated, slipping)])))))

(***************************************************************************)
(* The sweeps.  A row carries the fields the code returns (slope, gear,    *)
(* speed_kmh, value) and, for the properties, the intermediate values of   *)
(* the sample it was computed from.                                        *)
(***************************************************************************)
\* speed points generated per range: np.linspace(..., 100)
NumSamples == 100

\* slope increment of np.arange(0, max_slope_percent + 0.5, 0.5), milli
SlopeStep == 500

\* np.arange(0, stop, step) for milli stop and step: ceil(stop / step) points
arange(stop, step) ==
    LET n == IF stop <= 0 THEN 0 ELSE (stop + step - 1) \div step
    IN  [i \in 1..n |-> (i - 1) * step]

\* gears that pass "if rear_axle_ratio <= 0 or wheel_dia_m <= 0 or
\* gear_ratio <= 0: continue"
SweptGears(c) ==
    SelectSeq(c.gear_ratios,
              LAMBDA g : ~(c.rear_axle_ratio <= 0 \/ c.wheel_dia_m <= 0 \/ g <= 0))

\* faulty variant of ShuntingLoad: a negative remaining force is not cut to 0
ShuntingLoadUnclamped(remaining_traction_n, total_resistance_1ton_wagon) ==
    MulDiv(remaining_traction_n, 1000, total_resistance_1ton_wagon)

\* y_val of a shunting row: tonnes of wagons the remaining force can move
ShuntingLoad(remaining_traction_n, total_resistance_1ton_wagon) ==
    IF remaining_traction_n > 0 /\ total_resistance_1ton_wagon > 0
    THEN MulDiv(remaining_traction_n, 1000, total_resistance_1ton_wagon)
    ELSE 0

\* faulty variant of WagonProbeTon: the probe is the trailing load
WagonProbeLoad(c) == c.shunting_load_t

\* weight of the wagon whose resistance divides the remaining force:
\* rolling_resistance_wagon(speed_kmh, 1.0), gradient_resistance(1.0, ...)
WagonProbeTon(c) == 1000

\* the body of the innermost loop of _calculate_curves_common
CurveRow(c, calculate_shunting, slope_percent, gear_ratio, speed_kmh) ==
    Let(Drive(c, speed_kmh, gear_ratio), LAMBDA d :
    Let(rolling_resistance_loco(speed_kmh, c.loco_gvw_ton, c.num_axles)
        + gradient_resistance(c.loco_gvw_ton, slope_percent)
        + curvature_resistance(c.loco_gvw_ton, c.max_curve_deg)
        + starting_resistance_loco(c.loco_gvw_ton), LAMBDA loco_resistance :
    Let(d.actual_traction_n - loco_resistance, LAMBDA remaining_traction_n :
    Let(rolling_resistance_wagon(speed_kmh, WagonProbeTon(c))
        + gradient_resistance(WagonProbeTon(c), slope_percent)
        + curvature_resistance(WagonProbeTon(c), c.max_curve_deg)
        + starting_resistance_wagon(WagonProbeTon(c)),
        LAMBDA total_resistance_1ton_wagon :
    Let(IF calculate_shunting
        THEN ShuntingLoad(remaining_traction_n, total_resistance_1ton_wagon)
        ELSE d.actual_traction_n, LAMBDA y_val :
        [slope |-> Round2(slope_percent),
         gear |-> gear_ratio,
         speed_kmh |-> Round2Speed(speed_kmh),
         value |-> Round2(y_val),
         speed |-> speed_kmh,
         loco_resistance |-> loco_resistance,
         wagon_resistance |-> total_resistance_1ton_wagon] @@ d)))))

\* faulty variant of CurveMinSpeed: the range starts at the speed of min_rpm
CurveMinSpeedAtMinRpm(c, gear_ratio) == SpeedAtRpm(c, c.min_rpm, gear_ratio)

\* min_speed_kmh of a gear in _calculate_curves_common
CurveMinSpeed(c, gear_ratio) == 0

\* _calculate_curves_common: [err, val]
calculate_curves_common(c, calculate_shunting) ==
    LET slopes == arange(c.max_slope_percent + SlopeStep, SlopeStep)
        gears == SweptGears(c)
        perSlope == Len(gears) * NumSamples
        n == Len(slopes) * perSlope
    IN  IF n > 0 /\ ~Truthy(c.torque_curve)
        THEN [err |-> "ValueError", val |-> <<>>]
        ELSE [err |-> "none", val |->
               [k \in 1..n |->
                  LET slope_percent == slopes[((k - 1) \div perSlope) + 1]
                      gear_ratio ==
                          gears[(((k - 1) \div NumSamples) % Len(gears)) + 1]
                      max_speed_kmh == SpeedAtRpm(c, c.max_rpm, gear_ratio)
                      speed_kmh == linspace(CurveMinSpeed(c, gear_ratio),
                                            max_speed_kmh, NumSamples,
                                            (k - 1) % NumSamples)
                  IN  CurveRow(c, calculate_shunting, slope_percent,
                               gear_ratio, speed_kmh)]]

\* calculate_plot_data: [err, val]
calculate_plot_data(c) ==
    Let(calculate_curves_common(c, FALSE), LAMBDA tractive_effort_data :
    Let(calculate_curves_common(c, TRUE), LAMBDA shunting_capability_data :
        IF tractive_effort_data.err # "none"
        THEN [err |-> tractive_effort_data.err, val |-> <<>>]
        ELSE IF shunting_capability_data.err # "none"
        THEN [err |-> shunting_capability_data.err, val |-> <<>>]
        ELSE [err |-> "none", val |-> <<[
                 tractive_effort_plot |-> tractive_effort_data.val,
                 shunting_capability_plot |-> shunting_capability_data.val]>>]))

\* one tested speed of calculate_speed_for_shunting_load
ScanSample(c, slope_percent, speed_kmh) ==
    Let(Drive(c, speed_kmh, SeqMax(c.gear_ratios)), LAMBDA d :
    Let(rolling_resistance_loco(speed_kmh, c.loco_gvw_ton, c.num_axles)
        + gradient_resistance(c.loco_gvw_ton, slope_percent)
        + curvature_resistance(c.loco_gvw_ton, c.max_curve_deg),
        LAMBDA loco_res :
    Let(rolling_resistance_wagon(speed_kmh, c.shunting_load_t)
        + gradient_resistance(c.shunting_load_t, slope_percent)
        + curvature_resistance(c.shunting_load_t, c.max_curve_deg),
        LAMBDA wagon_res :
    Let(loco_res + wagon_res, LAMBDA total_resistance_n :
        [speed |-> speed_kmh,
         total_resistance_n |-> total_resistance_n,
         qualifies |-> d.actual_traction_n >= total_resistance_n] @@ d))))

\* the row of one slope: the last tested speed that qualifies, 0.0 if none
ScanRow(c, slope_percent, min_speed_kmh, max_speed_kmh) ==
    Let([i \in 1..NumSamples |->
           ScanSample(c, slope_percent,
                      linspace(min_speed_kmh, max_speed_kmh, NumSamples,
                               i - 1))], LAMBDA scan :
    Let({i \in 1..NumSamples : scan[i].qualifies}, LAMBDA hits :
    Let(IF hits = {} THEN 0 ELSE scan[SetMax(hits)].speed,
        LAMBDA max_achievable_speed :
        [slope |-> Round2(slope_percent),
         max_speed_kmh |-> Round2Speed(max_achievable_speed),
         scan |-> scan])))

\* calculate_speed_for_shunting_load: [err, val]
calculate_speed_for_shunting_load(c) ==
    IF c.rear_axle_ratio <= 0 \/ c.wheel_dia_m <= 0
    THEN [err |-> "ValueError", val |-> <<>>]
    ELSE IF Len(c.gear_ratios) = 0
    THEN [err |-> "ValueError", val |-> <<>>]
    ELSE IF SeqMax(c.gear_ratios) = 0 \/ SeqMin(c.gear_ratios) = 0
    THEN [err |-> "ZeroDivisionError", val |-> <<>>]
    ELSE LET min_speed_kmh == SpeedAtRpm(c, c.min_rpm, SeqMax(c.gear_ratios))
             max_speed_kmh == SpeedAtRpm(c, c.max_rpm, SeqMin(c.gear_ratios))
             slopes == arange(c.max_slope_percent + SlopeStep, SlopeStep)
         IN  IF Len(slopes) > 0 /\ ~Truthy(c.torque_curve)
             THEN [err |-> "ValueError", val |-> <<>>]
             ELSE [err |-> "none", val |->
                    [k \in 1..Len(slopes) |->
                       ScanRow(c, slopes[k], min_speed_kmh, max_speed_kmh)]]

(***************************************************************************)
(* Request validation: the pydantic schema (schemas.py) that FastAPI       *)
(* applies before the handler runs, and validate_vehicle_performance_inputs*)
(* (validation.py), which renames the fields for the calculator.           *)
(***************************************************************************)
\* validate_positive: loco_gvw, max_speed, peak_power, wheel_dia
validate_positive(v) == ~(v <= 0)

\* validate_positive_int: num_axles, min_rpm, max_rpm
validate_positive_int(v) == ~(v <= 0)

\* faulty variant of validate_friction: 0 is let through
validate_friction_inclusive(v) == 0 <= v /\ v <= 1000

\* validate_friction
validate_friction(v) == 0 < v /\ v <= 1000

\* validate_gear_ratios
validate_gear_ratios(v) == Len(v) > 0 /\ \A i \in 1..Len(v) : ~(v[i] <= 0)

\* VehiclePerformanceInput(**body) succeeds
SchemaAccepts(r) ==
    /\ validate_positive(r.loco_gvw)
    /\ validate_positive(r.max_speed)
    /\ validate_positive(r.peak_power)
    /\ validate_positive(r.wheel_dia)
    /\ validate_positive_int(r.num_axles)
    /\ validate_positive_int(r.min_rpm)
    /\ validate_positive_int(r.max_rpm)
    /\ validate_friction(r.friction_mu)
    /\ validate_gear_ratios(r.gear_ratios)

\* validate_vehicle_performance_inputs(raw)[0]
\* Python's None, as a value no field of a request takes
None == -999999999

\* field_mapping: user-facing field name -> internal field name
field_mapping ==
    [loco_gvw |-> "loco_gvw_kg", max_speed |-> "max_speed_kmh",
     shunting_load |-> "shunting_load_t", peak_power |-> "peak_power_kw",
     wheel_dia |-> "wheel_dia_m"]

\* the user-facing field that internal field k is mapped from
HtmlField(k) == CHOOSE h \in DOMAIN field_mapping : field_mapping[h] = k

\* validate_vehicle_performance_inputs(raw)[0], r being raw.dict(): the
\* mapped fields, gear_ratios, the rpm defaults, and then every remaining
\* field of r as it is, which overwrites a default set just before
validate_vehicle_performance_inputs(r) ==
    [k \in {field_mapping[h] : h \in DOMAIN field_mapping \cap DOMAIN r}
           \cup {"max_rpm", "min_rpm"}
           \cup (DOMAIN r \ DOMAIN field_mapping) |->
        IF k \in DOMAIN r \ DOMAIN field_mapping THEN r[k]
        ELSE IF k = "max_rpm" THEN 2500
        ELSE IF k = "min_rpm" THEN 100
        ELSE r[HtmlField(k)]]

(***************************************************************************)
(* Inputs of the model                                                     *)
(***************************************************************************)
\* largest max_slope offered, in slope steps
MaxSlopeIdx == 1

\* torque probes run from 0 rpm in steps of 50 rpm up to 50 * MaxProbe rpm
MaxProbe == 48

SmallCurve == DictCurve(<<<<400, 1200000>>, <<1200, 1800000>>, <<2100, 900000>>>>)

BigCurve == DictCurve(<<<<400, 12000000>>, <<1200, 18000000>>, <<2100, 9000000>>>>)

TinyCurve == DictCurve(<<<<400, 100000>>, <<2100, 50000>>>>)

ShuffledCurve == DictCurve(<<<<1200, 1800000>>, <<2100, 900000>>, <<400, 1200000>>>>)

ReversedCurve == DictCurve(<<<<2100, 900000>>, <<1200, 1800000>>, <<400, 1200000>>>>)

PointCurve == DictCurve(<<<<1200, 1800000>>>>)

BaseRequest ==
    [max_curve |-> 0, max_slope |-> 500, loco_gvw |-> 120002000,
     max_speed |-> 100000, num_axles |-> 4, rear_axle_ratio |-> 3500,
     gear_ratios |-> <<8500>>, shunting_load |-> 1000000,
     peak_power |-> 2000000, friction_mu |-> 350, wheel_dia |-> 1250,
     min_rpm |-> 400, max_rpm |-> 2100, torque_curve |-> SmallCurve,
     curve_unit |-> "degree", slope_unit |-> "%"]

GearChoices ==
    {<<>>, <<0>>, <<0, 8500>>, <<8500, 0>>, <<8500, 4500>>, <<-8500>>,
     <<8500, -4500>>}

CurveChoices ==
    {NoneCurve, DictCurve(<<>>), BigCurve, TinyCurve, ShuffledCurve}

Requests ==
    {BaseRequest}
    \cup {[BaseRequest EXCEPT !.gear_ratios = g] : g \in GearChoices}
    \cup {[BaseRequest EXCEPT !.wheel_dia = w] : w \in {0, -1250}}
    \cup {[BaseRequest EXCEPT !.rear_axle_ratio = a] : a \in {0, -3500}}
    \cup {[BaseRequest EXCEPT !.friction_mu = m] : m \in {0, -350, 5, 1000, 1001}}
    \cup {[BaseRequest EXCEPT !.min_rpm = p[1], !.max_rpm = p[2]] :
              p \in {<<0, 2100>>, <<-400, 2100>>, <<400, 0>>, <<400, -2100>>,
                     <<2100, 400>>}}
    \cup {[BaseRequest EXCEPT !.torque_curve = t] : t \in CurveChoices}
    \cup {[BaseRequest EXCEPT !.loco_gvw = 200000000, !.torque_curve = BigCurve]}
    \cup {[BaseRequest EXCEPT !.max_curve = r, !.curve_unit = u] :
              r \in {0, 100000}, u \in {"m", "radius"}}
    \cup {[BaseRequest EXCEPT !.shunting_load = l] : l \in {0, 2000000}}
    \cup {[BaseRequest EXCEPT !.peak_power = 30000]}
    \cup {[BaseRequest EXCEPT !.max_curve = 6000]}
    \cup {[BaseRequest EXCEPT !.max_slope = SlopeStep * i] : i \in 0..MaxSlopeIdx}
    \cup {[BaseRequest EXCEPT !.max_slope = 700]}
    \cup {[BaseRequest EXCEPT !.max_slope = 0, !.torque_curve = BigCurve,
                              !.loco_gvw = w] : w \in {120002000, 200000000}}

\* dicts handed to perform_vehicle_performance_calculation directly
ServiceInputs ==
    {validate_vehicle_performance_inputs(r) : r \in Requests}
    \cup {[k \in DOMAIN validate_vehicle_performance_inputs(BaseRequest)
               \ {"torque_curve"} |->
               validate_vehicle_performance_inputs(BaseRequest)[k]]}

\* validated inputs of the calculators of the "calls" and "pair" entries
SessionInputs ==
    {validate_vehicle_performance_inputs([BaseRequest EXCEPT !.max_slope = 0]),
     validate_vehicle_performance_inputs(
         [BaseRequest EXCEPT !.max_slope = 0, !.torque_curve = BigCurve])}

\* arguments of the direct calls of the resistance functions, weights
\* in 0.001 t
MaxAxles == 4
ResistanceCalls ==
    [fn : {"rolling_resistance_loco", "rolling_resistance_wagon"},
     args : [speed_kmh : {0, 16630000, 60000000},
             weight_ton : {-5000, 0, 20000, 120002},
             num_axles : (-1)..MaxAxles],
     out : {<<>>}]

\* d without field k
Without(d, k) == [f \in DOMAIN d \ {k} |-> d[f]]

\* raw.dict() of the direct calls of validate_vehicle_performance_inputs:
\* max_rpm and min_rpm given, None, or not there
RawDicts ==
    LET maxes == {[BaseRequest EXCEPT !.max_rpm = v] : v \in {2100, 3000, None}}
                 \cup {Without(BaseRequest, "max_rpm")}
    IN  UNION {{[d EXCEPT !.min_rpm = v] : v \in {400, None}}
               \cup {Without(d, "min_rpm")} : d \in maxes}

ValidateCalls ==
    [fn : {"validate_vehicle_performance_inputs"}, args : RawDicts,
     out : {<<>>}]

ProbeCurves ==
    {NoneCurve, DictCurve(<<>>), SmallCurve, ShuffledCurve, ReversedCurve,
     TinyCurve, PointCurve}

ProbeRpms == {50000 * i : i \in 0..MaxProbe}

\* ---------------------------------------------------------------------
\* api/tools.py: the legacy endpoint POST /calculate_performance
\* ---------------------------------------------------------------------
\* Python's "x or default" of an optional number
OrDefault(x, default) == IF x = None \/ x = 0 THEN default ELSE x

\* modern_input.model_dump(): the legacy fields or their defaults, the
\* fixed values of the handler and the defaults of the schema; an absent or
\* empty gear list is <<>>
ModernInput(v) ==
    [loco_gvw |-> OrDefault(v.loco_gvw, 120000000),
     peak_power |-> OrDefault(v.peak_power, 2000000),
     wheel_dia |-> OrDefault(v.wheel_dia, 1250),
     num_axles |-> OrDefault(v.num_axles, 4),
     rear_axle_ratio |-> 3500,
     gear_ratios |-> IF v.gear_ratios = <<>> THEN <<1000>> ELSE v.gear_ratios,
     friction_mu |-> OrDefault(v.friction_mu, 350),
     min_rpm |-> 400,
     max_speed |-> 100000,
     max_slope |-> 2000,
     max_curve |-> 6000,
     shunting_load |-> 2000000,
     max_rpm |-> 2500,
     torque_curve |-> NoneCurve,
     curve_unit |-> "degree",
     slope_unit |-> "%"]

\* max([gear.get('max_speed_level_kmh', 0) for gear in results.values()]):
\* the values of the snapshot are two floats and a string, which have no
\* get
LegacyPerformanceData(results) ==
    [err |-> "AttributeError", val |-> <<>>]

\* except Exception: HTTPException(status_code=400, ...)
LegacyFailure(e) == [status |-> 400, err |-> e, body |-> <<>>]

\* the handler: [status, err, body]
legacy_vehicle_performance_calculate(raw_input) ==
    IF ~SchemaAccepts(ModernInput(raw_input))
    THEN LegacyFailure("ValidationError")
    ELSE IF NewCalculator(ModernInput(raw_input)).err # "none"
    THEN LegacyFailure(NewCalculator(ModernInput(raw_input)).err)
    ELSE \* the calculator exists
         LET results == run_tractive_calculation(
                            NewCalculator(ModernInput(raw_input)).calc[1])
         IN  IF results.err # "none" THEN LegacyFailure(results.err)
             ELSE IF LegacyPerformanceData(results.val[1]).err # "none"
             THEN LegacyFailure(LegacyPerformanceData(results.val[1]).err)
             ELSE [status |-> 200, err |-> "none",
                   body |-> <<[traction_snapshot |-> results.val[1],
                               performance_data |->
                                   LegacyPerformanceData(results.val[1]).val,
                               calculation_status |-> "success"]>>]

\* legacy requests: each field given or absent
LegacyRequests ==
    [loco_gvw : {None, 120002000},
     peak_power : {None, 2000000},
     wheel_dia : {None, 1250, -1250},
     num_axles : {None, 4},
     gear_ratios : {<<>>, <<8500>>, <<8500, 4500>>},
     friction_mu : {None, 350}]

LegacyCalls ==
    [fn : {"legacy_vehicle_performance_calculate"}, args : LegacyRequests,
     out : {<<>>}]

\* ---------------------------------------------------------------------
\* core.py: the constant-power functions.  Masses in 0.001 kg, powers in
\* 0.001 kW, slopes in 0.001 %, lengths in 0.001 m, gear ratios in 0.001,
\* forces in 0.001 N, torques in 0.001 Nm, rpm in 0.001 rpm; tested
\* speeds in whole km/h
\* ---------------------------------------------------------------------
\* constants.py, in 0.01 m/s^2, 0.001 kg/m^3, 0.001 and 0.1
GRAVITY == 981
AIR_DENSITY == 1225
ROLLING_RESISTANCE_COEFFICIENT == 2
MPS_TO_KMH == 36

\* float('inf'), larger than every finite radius
Inf == 2147483647

\* default of calculate_wheel_force's mechanical_efficiency, in 0.001
mechanical_efficiency == 950

\* speed_kmh / MPS_TO_KMH, in 0.001 m/s
SpeedMps(speed_kmh) == RDiv(speed_kmh * 10000, MPS_TO_KMH)

calculate_resistive_forces(mass_kg, speed_kmh, slope_percent, curve_radius_m, friction_mu) ==
    LET speed_mps == SpeedMps(speed_kmh)
        rolling_resistance ==
            MulDiv(mass_kg, GRAVITY * ROLLING_RESISTANCE_COEFFICIENT, 100000)
        gradient ==
            MulDiv(mass_kg, GRAVITY * slope_percent, 10000000)
        curve_resistance ==
            IF curve_radius_m > 0 /\ curve_radius_m # Inf
            THEN MulDiv(MulDiv(mass_kg, speed_mps, curve_radius_m),
                        speed_mps, 1000)
            ELSE 0
        air_resistance ==
            MulDiv(MulDiv(speed_mps, speed_mps, 1000), AIR_DENSITY, 2000)
    IN  [rolling_resistance |-> rolling_resistance,
         gradient_resistance |-> gradient,
         curve_resistance |-> curve_resistance,
         air_resistance |-> air_resistance,
         total_resistance |-> rolling_resistance + gradient
                              + curve_resistance + air_resistance]

calculate_torque_from_power(power_kw, rpm) ==
    IF rpm = 0 THEN 0
    ELSE MulDiv(power_kw, 30000000, MulDiv(rpm, PiMicro, 1000000))

calculate_wheel_force(torque_nm, wheel_radius_m, gear_ratio) ==
    MulDiv(MulDiv(torque_nm, gear_ratio, 1000), mechanical_efficiency,
           wheel_radius_m)

\* range(0, 200, 5)
TestedSpeeds == [i \in 1..40 |-> 5 * (i - 1)]

\* the wheel rpm of the scan at one speed
ScanRpm(speed_kmh, gear_ratio, wheel_radius_m) ==
    MulDiv(MulDiv(SpeedMps(speed_kmh), gear_ratio * 60, 1000), 1000000,
           MulDiv(2 * PiMicro, wheel_radius_m, 1000))

\* the tractive force of the scan at one speed with rpm > 0
ScanTractiveForce(a, speed_kmh) ==
    calculate_wheel_force(
        calculate_torque_from_power(a.available_power_kw,
            ScanRpm(speed_kmh, a.gear_ratio, a.wheel_radius_m)),
        a.wheel_radius_m, 1000)

ScanTotalResistance(a, speed_kmh) ==
    calculate_resistive_forces(a.mass_kg, speed_kmh, a.slope_percent,
        a.curve_radius_m, a.friction_mu).total_resistance

\* the indices of the tested speeds with rpm > 0
ScanPositive(a) ==
    {i \in DOMAIN TestedSpeeds :
        ScanRpm(TestedSpeeds[i], a.gear_ratio, a.wheel_radius_m) > 0}

\* those of them with tractive_force >= total_resistance
ScanAchievable(a) ==
    {i \in ScanPositive(a) :
        ScanTractiveForce(a, TestedSpeeds[i])
            >= ScanTotalResistance(a, TestedSpeeds[i])}

\* the indices the loop goes through: those before the first break, which
\* is at the first speed with rpm > 0 that is not achievable
ScanVisited(positive, achievable) ==
    {i \in DOMAIN TestedSpeeds : \A j \in positive \ achievable : i < j}

\* a variant that keeps the first achievable speed
FirstKept(kept) == IF kept = {} THEN 0 ELSE SetMin(kept)

\* max_speed_kmh = 0.0, then max_speed_kmh = speed_kmh at each achievable
\* speed gone through: the last of them stays, the speeds being tested in
\* increasing order
LastKept(kept) == IF kept = {} THEN 0 ELSE SetMax(kept)

\* the loop of calculate_max_speed_for_conditions
ScanSpeeds(a) ==
    Let(ScanAchievable(a), LAMBDA achievable :
        LastKept({TestedSpeeds[i] :
                      i \in ScanVisited(ScanPositive(a), achievable)
                             \cap achievable}))

\* [err, val]; a zero wheel radius divides by zero in the rpm
calculate_max_speed_for_conditions(mass_kg, available_power_kw, slope_percent, curve_radius_m, gear_ratio, wheel_radius_m, friction_mu) ==
    IF wheel_radius_m = 0 THEN [err |-> "ZeroDivisionError", val |-> 0]
    ELSE [err |-> "none",
          val |-> ScanSpeeds([mass_kg |-> mass_kg,
                              available_power_kw |-> available_power_kw,
                              slope_percent |-> slope_percent,
                              curve_radius_m |-> curve_radius_m,
                              gear_ratio |-> gear_ratio,
                              wheel_radius_m |-> wheel_radius_m,
                              friction_mu |-> friction_mu])]

\* a variant that lists the slopes from max_slope down
TableSlopeDescending(i, max_slope) == RDiv((10 - i) * max_slope, 10)

\* i * max_slope / 10
TableSlope(i, max_slope) == RDiv(i * max_slope, 10)

\* one row of calculate_speed_vs_slope_table; the columns
\* gear_<ratio>_speed_kmh are keyed by the ratio, a later equal ratio
\* overwrites the column
TableRow(inputs, slope) ==
    LET gear_ratios == Get(inputs, "gear_ratios", <<1000>>)
    IN  [slope_percent |-> slope,
         gear_speed_kmh |->
             [g \in {gear_ratios[j] : j \in 1..Len(gear_ratios)} |->
                 calculate_max_speed_for_conditions(inputs.loco_gvw_kg,
                     inputs.peak_power_kw, slope, Inf, g,
                     RDiv(inputs.wheel_dia_m, 2),
                     Get(inputs, "friction_mu", 300)).val]]

\* [err, val]
calculate_speed_vs_slope_table(inputs) ==
    IF inputs.wheel_dia_m = 0 /\ Get(inputs, "gear_ratios", <<1000>>) # <<>>
    THEN [err |-> "ZeroDivisionError", val |-> <<>>]
    ELSE [err |-> "none",
          val |-> [i \in 1..11 |->
                      TableRow(inputs,
                          TableSlope(i - 1, Get(inputs, "max_slope", 10000)))]]

\* arguments of the direct calls of the core.py functions
MaxSpeedCalls ==
    [fn : {"calculate_max_speed_for_conditions"},
     args : [mass_kg : {120002000, 20000000},
             available_power_kw : {2000000, 1000},
             slope_percent : {-500, 0, 2000},
             curve_radius_m : {-300000, 0, 300000, Inf},
             gear_ratio : {1000, 8500},
             wheel_radius_m : {0, 625},
             friction_mu : {350}],
     out : {<<>>}]

TableInputs ==
    LET d == validate_vehicle_performance_inputs(BaseRequest)
    IN  {d, Without(d, "max_slope"), Without(d, "gear_ratios"),
         [d EXCEPT !.max_slope = 0], [d EXCEPT !.max_slope = 3000],
         [d EXCEPT !.gear_ratios = <<8500, 4500>>, !.max_slope = 3000],
         [d EXCEPT !.gear_ratios = <<>>],
         [d EXCEPT !.gear_ratios = <<8500, 8500>>],
         [d EXCEPT !.max_slope = -3000],
         [d EXCEPT !.peak_power_kw = 1000],
         [d EXCEPT !.wheel_dia_m = 0]}

SlopeTableCalls ==
    [fn : {"calculate_speed_vs_slope_table"}, args : TableInputs,
     out : {<<>>}]

(***************************************************************************)
(* The state machine: one call of an entry point.                          *)
(*   entry "api"         POST /calculate (api.py)                          *)
(*   entry "service"     perform_vehicle_performance_calculation(inputs)   *)
(*   entry "interpolate" interpolate_torque(engine_rpm, curve)             *)
(*   entry "calls"       one calculator, its operations called in any      *)
(*                       order, up to MaxCalls calls                       *)
(*   entry "pair"        two /calculate handlers running concurrently,     *)
(*                       each on its own calculator (api.py 140-151)       *)
(*   entry "resistance"  rolling_resistance_loco / rolling_resistance_wagon*)
(*                       called directly                                   *)
(*   entry "validate"    validate_vehicle_performance_inputs(raw) called   *)
(*                       directly, call.args being raw.dict()              *)
(*   entry "max_speed"   calculate_max_speed_for_conditions (core.py)      *)
(*                       called directly                                   *)
(*   entry "slope_table" calculate_speed_vs_slope_table(inputs) (core.py)  *)
(*                       called directly                                   *)
(*   entry "legacy"      POST /calculate_performance (api/tools.py)        *)
(***************************************************************************)
VARIABLES
    entry,               \* which entry point this call is
    raw,                 \* <<>> or <<the request body>>
    inputs,              \* <<>> or <<the inputs dict>>
    calc,                \* <<>> or <<the calculator>>
    pc,                  \* position of the call
    traction_snapshot,   \* <<>> or <<result of run_tractive_calculation>>
    tractive_effort,     \* rows of the tractive-effort dataset so far
    shunting_capability, \* rows of the shunting-capability dataset so far
    speed_table,         \* rows of the speed-vs-slope table so far
    samples,             \* number of sweep samples evaluated so far
    error,               \* "none" or the exception raised
    status,              \* HTTP status of the api call, 0 while running
    probe,               \* the interpolate call: engine_rpm, curve, out
    reqs,                \* the calculators of the "calls" and "pair" entries
    call                 \* a direct call of a function: fn, args, out

vars == <<entry, raw, inputs, calc, pc, traction_snapshot, tractive_effort,
          shunting_capability, speed_table, samples, error, status, probe,
          reqs, call>>

NoProbe == [engine_rpm |-> 0, curve |-> NoneCurve, out |-> <<>>]

\* a request of the "calls" and "pair" entries before its calculator is built
NewRequest(d) == [inputs |-> d, calc |-> <<>>, hist |-> <<>>, err |-> "none"]

\* no direct call
NoCall == [fn |-> "none", args |-> <<>>, out |-> <<>>]

Init ==
    /\ entry \in {"api", "service", "interpolate", "calls", "pair",
                  "resistance", "validate", "max_speed", "slope_table",
                  "legacy"}
    /\ call \in IF entry = "resistance" THEN ResistanceCalls
                ELSE IF entry = "validate" THEN ValidateCalls
                ELSE IF entry = "max_speed" THEN MaxSpeedCalls
                ELSE IF entry = "slope_table" THEN SlopeTableCalls
                ELSE IF entry = "legacy" THEN LegacyCalls
                ELSE {NoCall}
    /\ reqs \in IF entry = "calls"
                THEN {<<NewRequest(d)>> : d \in SessionInputs}
                ELSE IF entry = "pair"
                THEN {<<NewRequest(a), NewRequest(b)>> :
                          a \in SessionInputs, b \in SessionInputs}
                ELSE {<<>>}
    /\ raw \in IF entry = "api" THEN {<<r>> : r \in Requests} ELSE {<<>>}
    /\ inputs \in IF entry = "service" THEN {<<d>> : d \in ServiceInputs}
                  ELSE {<<>>}
    /\ probe \in IF entry = "interpolate"
                 THEN [engine_rpm : ProbeRpms, curve : ProbeCurves, out : {<<>>}]
                 ELSE {NoProbe}
    /\ pc = IF entry = "api" THEN "received"
            ELSE IF entry = "service" THEN "called"
            ELSE IF entry = "interpolate" THEN "probe"
            ELSE IF entry \in {"calls", "pair"} THEN "requests" ELSE "calling"
    /\ calc = <<>>
    /\ traction_snapshot = <<>>
    /\ tractive_effort = <<>>
    /\ shunting_capability = <<>>
    /\ speed_table = <<>>
    /\ samples = 0
    /\ error = "none"
    /\ status = 0

\* faulty variant of Fail: the results computed so far stay in the answer
FailKeepingResults(e) ==
    /\ pc' = "failed"
    /\ error' = e
    /\ status' = IF entry = "api" THEN 500 ELSE status
    /\ UNCHANGED <<calc, traction_snapshot, tractive_effort,
                   shunting_capability, speed_table>>

\* an exception leaves the call: the handler's locals are gone; the api
\* turns it into HTTP 500 (api.py 153-159), the service lets it propagate
Fail(e) ==
    /\ pc' = "failed"
    /\ error' = e
    /\ status' = IF entry = "api" THEN 500 ELSE status
    /\ calc' = <<>>
    /\ traction_snapshot' = <<>>
    /\ tractive_effort' = <<>>
    /\ shunting_capability' = <<>>
    /\ speed_table' = <<>>

\* FastAPI builds VehiclePerformanceInput from the body; a validator error
\* answers 422 and the handler is not entered
SchemaValidate ==
    /\ pc = "received"
    /\ IF SchemaAccepts(raw[1])
       THEN pc' = "validated" /\ UNCHANGED <<error, status>>
       ELSE pc' = "rejected" /\ error' = "ValidationError" /\ status' = 422
    /\ UNCHANGED <<entry, raw, inputs, calc, traction_snapshot, tractive_effort,
                   shunting_capability, speed_table, samples, probe>>
    /\ UNCHANGED <<reqs, call>>

\* inputs, inputs_raw = validate_vehicle_performance_inputs(raw_input)
ValidateInputs ==
    /\ pc = "validated"
    /\ inputs' = <<validate_vehicle_performance_inputs(raw[1])>>
    /\ pc' = "mapped"
    /\ UNCHANGED <<entry, raw, calc, traction_snapshot, tractive_effort,
                   shunting_capability, speed_table, samples, error, status,
                   probe>>
    /\ UNCHANGED <<reqs, call>>

\* calculator = VehiclePerformanceCalculator(inputs)
Construct ==
    /\ pc \in {"mapped", "called"}
    /\ \E r \in {NewCalculator(inputs[1])} :
           IF r.err = "none"
           THEN /\ calc' = r.calc
                /\ pc' = "constructed"
                /\ UNCHANGED <<traction_snapshot, tractive_effort,
                               shunting_capability, speed_table, error, status>>
           ELSE Fail(r.err)
    /\ UNCHANGED <<entry, raw, inputs, samples, probe>>
    /\ UNCHANGED <<reqs, call>>

\* 'traction_snapshot': calculator.run_tractive_calculation()
RunTractive ==
    /\ pc = "constructed"
    /\ \E r \in {run_tractive_calculation(calc[1])} :
           IF r.err = "none"
           THEN /\ traction_snapshot' = r.val
                /\ pc' = "traction_done"
                /\ UNCHANGED <<calc, tractive_effort, shunting_capability,
                               speed_table, error, status>>
           ELSE Fail(r.err)
    /\ UNCHANGED <<entry, raw, inputs, samples, probe>>
    /\ UNCHANGED <<reqs, call>>

\* rows evaluated by one calculate_plot_data call
PlotSamples(r) ==
    IF r.err = "none"
    THEN Len(r.val[1].tractive_effort_plot)
         + Len(r.val[1].shunting_capability_plot)
    ELSE 0

\* api: 'tractive_effort_graph':
\*          calculator.calculate_plot_data()['tractive_effort_plot']
PlotTractive ==
    /\ entry = "api"
    /\ pc = "traction_done"
    /\ \E r \in {calculate_plot_data(calc[1])} :
           /\ samples' = samples + PlotSamples(r)
           /\ IF r.err = "none"
              THEN /\ tractive_effort' = r.val[1].tractive_effort_plot
                   /\ pc' = "tractive_plot_done"
                   /\ UNCHANGED <<calc, traction_snapshot, shunting_capability,
                                  speed_table, error, status>>
              ELSE Fail(r.err)
    /\ UNCHANGED <<entry, raw, inputs, probe>>
    /\ UNCHANGED <<reqs, call>>

\* api: 'shunting_capability_graph':
\*          calculator.calculate_plot_data()['shunting_capability_plot']
PlotShunting ==
    /\ entry = "api"
    /\ pc = "tractive_plot_done"
    /\ \E r \in {calculate_plot_data(calc[1])} :
           /\ samples' = samples + PlotSamples(r)
           /\ IF r.err = "none"
              THEN /\ shunting_capability' = r.val[1].shunting_capability_plot
                   /\ pc' = "plots_done"
                   /\ UNCHANGED <<calc, traction_snapshot, tractive_effort,
                                  speed_table, error, status>>
              ELSE Fail(r.err)
    /\ UNCHANGED <<entry, raw, inputs, probe>>
    /\ UNCHANGED <<reqs, call>>

\* service: 'plot_data': calculator.calculate_plot_data()
PlotData ==
    /\ entry = "service"
    /\ pc = "traction_done"
    /\ \E r \in {calculate_plot_data(calc[1])} :
           /\ samples' = samples + PlotSamples(r)
           /\ IF r.err = "none"
              THEN /\ tractive_effort' = r.val[1].tractive_effort_plot
                   /\ shunting_capability' = r.val[1].shunting_capability_plot
                   /\ pc' = "plots_done"
                   /\ UNCHANGED <<calc, traction_snapshot, speed_table, error,
                                  status>>
              ELSE Fail(r.err)
    /\ UNCHANGED <<entry, raw, inputs, probe>>
    /\ UNCHANGED <<reqs, call>>

\* 'speed_vs_slope_table': calculator.calculate_speed_for_shunting_load()
SpeedTable ==
    /\ pc = "plots_done"
    /\ \E r \in {calculate_speed_for_shunting_load(calc[1])} :
           IF r.err = "none"
           THEN /\ speed_table' = r.val
                /\ samples' = samples + NumSamples * Len(r.val)
                /\ pc' = "table_done"
                /\ UNCHANGED <<calc, traction_snapshot, tractive_effort,
                               shunting_capability, error, status>>
           ELSE Fail(r.err) /\ UNCHANGED samples
    /\ UNCHANGED <<entry, raw, inputs, probe>>
    /\ UNCHANGED <<reqs, call>>

\* return results
Return ==
    /\ pc = "table_done"
    /\ pc' = "returned"
    /\ status' = IF entry = "api" THEN 200 ELSE status
    /\ UNCHANGED <<entry, raw, inputs, calc, traction_snapshot, tractive_effort,
                   shunting_capability, speed_table, samples, error, probe>>
    /\ UNCHANGED <<reqs, call>>

\* interpolate_torque(engine_rpm, curve)
InterpolateTorque ==
    /\ pc = "probe"
    /\ \E r \in {interpolate_torque(probe.engine_rpm, probe.curve)} :
           IF r.err = "none"
           THEN /\ probe' = [probe EXCEPT !.out = <<r.val>>]
                /\ pc' = "returned"
                /\ UNCHANGED error
           ELSE /\ pc' = "failed"
                /\ error' = r.err
                /\ UNCHANGED probe
    /\ UNCHANGED <<entry, raw, inputs, calc, traction_snapshot, tractive_effort,
                   shunting_capability, speed_table, samples, status>>
    /\ UNCHANGED <<reqs, call>>

(***************************************************************************)
(* Calculators used more than once.  A request holds the inputs dict, the  *)
(* calculator built from it, and the operations called on it so far with   *)
(* what each returned.  The calculator keeps a reference to the inputs     *)
(* dict (self.inputs) and to its torque curve, so whatever an operation    *)
(* does to the calculator shows in the request's inputs as well.           *)
(***************************************************************************)
\* calls made on the calculator of the "calls" entry
MaxCalls == 3

Operations ==
    {"run_tractive_calculation", "calculate_plot_data",
     "calculate_speed_for_shunting_load"}

\* the calls of the /calculate handler, in its order (api.py 143-148)
HandlerCalls ==
    <<"run_tractive_calculation", "calculate_plot_data",
      "calculate_plot_data", "calculate_speed_for_shunting_load">>

\* what operation op returns on calculator c: [err, val]
OpResult(c, op) ==
    IF op = "run_tractive_calculation" THEN run_tractive_calculation(c)
    ELSE IF op = "calculate_plot_data" THEN calculate_plot_data(c)
    ELSE calculate_speed_for_shunting_load(c)

\* faulty variant of CalcAfterCall: the call converts the weight once more
CalcAfterCallRescaled(c, op) ==
    [c EXCEPT !.loco_gvw_ton = RDiv(c.loco_gvw_ton, 1000)]

\* the calculator after operation op ran on it: the three operations
\* assign no attribute of self and change no object self refers to
CalcAfterCall(c, op) == c

\* faulty variant of CalcOf: one calculator shared by the requests, the
\* one built last
CalcOfOther(rs, i) ==
    IF Len(rs) = 2 /\ rs[3 - i].calc # <<>> THEN rs[3 - i].calc
    ELSE rs[i].calc

\* the calculator a step of request i works on: the handler's local
\* variable "calculator"
CalcOf(rs, i) == rs[i].calc

\* request i after operation op ran on calculator c and returned r
Called(rs, i, c, op, r) ==
    [rs EXCEPT ![i] =
        [inputs |-> CalcAfterCall(c, op).inputs,
         calc |-> <<CalcAfterCall(c, op)>>,
         hist |-> Append(rs[i].hist, [op |-> op, err |-> r.err, val |-> r.val]),
         err |-> r.err]]

\* calculator = VehiclePerformanceCalculator(inputs), in request i
RequestConstruct(i) ==
    /\ entry \in {"calls", "pair"}
    /\ i \in 1..Len(reqs)
    /\ reqs[i].calc = <<>> /\ reqs[i].err = "none"
    /\ \E r \in {NewCalculator(reqs[i].inputs)} :
           reqs' = [reqs EXCEPT ![i].calc = r.calc, ![i].err = r.err]
    /\ UNCHANGED <<entry, raw, inputs, calc, pc, traction_snapshot,
                   tractive_effort, shunting_capability, speed_table, samples,
                   error, status, probe, call>>

\* any operation, called on the one calculator of the "calls" entry; an
\* exception leaves the caller with the calculator as it is
RequestCall(i, op) ==
    /\ entry = "calls"
    /\ i \in 1..Len(reqs)
    /\ reqs[i].calc # <<>>
    /\ Len(reqs[i].hist) < MaxCalls
    /\ \E c \in {CalcOf(reqs, i)[1]} : \E r \in {OpResult(c, op)} :
           reqs' = Called(reqs, i, c, op, r)
    /\ UNCHANGED <<entry, raw, inputs, calc, pc, traction_snapshot,
                   tractive_effort, shunting_capability, speed_table, samples,
                   error, status, probe, call>>

\* the next call of handler i of the "pair" entry; an exception ends the
\* handler
HandlerCall(i) ==
    /\ entry = "pair"
    /\ i \in 1..Len(reqs)
    /\ reqs[i].calc # <<>> /\ reqs[i].err = "none"
    /\ Len(reqs[i].hist) < Len(HandlerCalls)
    /\ \E op \in {HandlerCalls[Len(reqs[i].hist) + 1]} :
       \E c \in {CalcOf(reqs, i)[1]} : \E r \in {OpResult(c, op)} :
           reqs' = Called(reqs, i, c, op, r)
    /\ UNCHANGED <<entry, raw, inputs, calc, pc, traction_snapshot,
                   tractive_effort, shunting_capability, speed_table, samples,
                   error, status, probe, call>>

(***************************************************************************)
(* Functions called directly.  call.out is <<>> until the function has     *)
(* returned or raised, then <<[err, val]>>.                                *)
(***************************************************************************)
\* the outcome of rolling_resistance_loco with the guard of lines 79-80
\* taken out: the divisors of lines 81 and 83 are num_axles, the axle load
\* weight_ton / num_axles, and weight_ton
rolling_resistance_loco_unguarded(speed_kmh, weight_ton, num_axles) ==
    IF num_axles = 0 \/ weight_ton = 0
    THEN [err |-> "ZeroDivisionError", val |-> 0]
    ELSE [err |-> "none",
          val |-> rolling_resistance_loco(speed_kmh, weight_ton, num_axles)]

\* rolling_resistance_loco as a call: the value, or the exception of a
\* division by zero
rolling_resistance_loco_call(speed_kmh, weight_ton, num_axles) ==
    IF weight_ton <= 0 \/ num_axles <= 0 THEN [err |-> "none", val |-> 0]
    ELSE IF RDiv(weight_ton * 1000, num_axles) = 0
    THEN [err |-> "ZeroDivisionError", val |-> 0]
    ELSE [err |-> "none",
          val |-> rolling_resistance_loco(speed_kmh, weight_ton, num_axles)]

\* rolling_resistance_wagon as a call: it has no division
rolling_resistance_wagon_call(speed_kmh, weight_ton) ==
    [err |-> "none", val |-> rolling_resistance_wagon(speed_kmh, weight_ton)]

\* a resistance function called directly
ResistanceCall ==
    /\ entry = "resistance"
    /\ pc = "calling"
    /\ \E r \in {IF call.fn = "rolling_resistance_loco"
                 THEN rolling_resistance_loco_call(call.args.speed_kmh,
                          call.args.weight_ton, call.args.num_axles)
                 ELSE rolling_resistance_wagon_call(call.args.speed_kmh,
                          call.args.weight_ton)} :
           /\ call' = [call EXCEPT !.out = <<r>>]
           /\ pc' = IF r.err = "none" THEN "returned" ELSE "failed"
           /\ error' = r.err
    /\ UNCHANGED <<entry, raw, inputs, calc, traction_snapshot, tractive_effort,
                   shunting_capability, speed_table, samples, status, probe,
                   reqs>>

\* validate_vehicle_performance_inputs called directly; with a list of
\* gear ratios it raises nothing
ValidateCall ==
    /\ entry = "validate"
    /\ pc = "calling"
    /\ call' = [call EXCEPT !.out =
                   <<[err |-> "none",
                      val |-> validate_vehicle_performance_inputs(call.args)]>>]
    /\ pc' = "returned"
    /\ UNCHANGED <<entry, raw, inputs, calc, traction_snapshot, tractive_effort,
                   shunting_capability, speed_table, samples, error, status,
                   probe, reqs>>

\* calculate_max_speed_for_conditions called directly
MaxSpeedCall ==
    /\ entry = "max_speed"
    /\ pc = "calling"
    /\ \E r \in {calculate_max_speed_for_conditions(call.args.mass_kg,
                     call.args.available_power_kw, call.args.slope_percent,
                     call.args.curve_radius_m, call.args.gear_ratio,
                     call.args.wheel_radius_m, call.args.friction_mu)} :
           /\ call' = [call EXCEPT !.out = <<r>>]
           /\ pc' = IF r.err = "none" THEN "returned" ELSE "failed"
           /\ error' = r.err
    /\ UNCHANGED <<entry, raw, inputs, calc, traction_snapshot, tractive_effort,
                   shunting_capability, speed_table, samples, status, probe,
                   reqs>>

\* calculate_speed_vs_slope_table called directly
SlopeTableCall ==
    /\ entry = "slope_table"
    /\ pc = "calling"
    /\ \E r \in {calculate_speed_vs_slope_table(call.args)} :
           /\ call' = [call EXCEPT !.out = <<r>>]
           /\ pc' = IF r.err = "none" THEN "returned" ELSE "failed"
           /\ error' = r.err
    /\ UNCHANGED <<entry, raw, inputs, calc, traction_snapshot, tractive_effort,
                   shunting_capability, speed_table, samples, status, probe,
                   reqs>>

\* POST /calculate_performance
LegacyCalculate ==
    /\ entry = "legacy"
    /\ pc = "calling"
    /\ \E r \in {legacy_vehicle_performance_calculate(call.args)} :
           /\ call' = [call EXCEPT !.out = <<r>>]
           /\ pc' = IF r.err = "none" THEN "returned" ELSE "failed"
           /\ error' = r.err
           /\ status' = r.status
    /\ UNCHANGED <<entry, raw, inputs, calc, traction_snapshot, tractive_effort,
                   shunting_capability, speed_table, samples, probe, reqs>>

Next ==
    \/ SchemaValidate
    \/ ValidateInputs
    \/ Construct
    \/ RunTractive
    \/ PlotTractive
    \/ PlotShunting
    \/ PlotData
    \/ SpeedTable
    \/ Return
    \/ InterpolateTorque
    \/ \E i \in 1..2 : RequestConstruct(i)
    \/ \E i \in 1..2 : \E op \in Operations : RequestCall(i, op)
    \/ \E i \in 1..2 : HandlerCall(i)
    \/ ResistanceCall
    \/ ValidateCall
    \/ MaxSpeedCall
    \/ SlopeTableCall
    \/ LegacyCalculate

Spec == Init /\ [][Next]_vars

(***************************************************************************)
(* Observations used by the properties                                     *)
(***************************************************************************)
\* the gear-ratio list the call was given
GivenGearRatios ==
    IF entry = "api" THEN raw[1].gear_ratios
    ELSE IF entry = "service" THEN Get(inputs[1], "gear_ratios", <<1000>>)
    ELSE <<1000>>

\* an empty gear list, or one with a 0 entry
DegenerateGears(g) == Len(g) = 0 \/ \E i \in 1..Len(g) : g[i] = 0

\* a divisor of the drivetrain formulas is zero or negative
DegenerateCalculator(c) ==
    \/ c.wheel_dia_m <= 0
    \/ c.rear_axle_ratio <= 0
    \/ \E i \in 1..Len(c.gear_ratios) : c.gear_ratios[i] <= 0

\* program points after a step of the analysis has returned normally
AfterTraction ==
    {"traction_done", "tractive_plot_done", "plots_done", "table_done",
     "returned"}

(***************************************************************************)
(* C1.  Given an empty gear-ratio list or a list with a 0 entry, the       *)
(* primary analysis raises an error before any sweep sample has been       *)
(* evaluated: it never returns, and no sample is ever evaluated.           *)
(***************************************************************************)
C1_DegenerateGearsRaiseBeforeAnySample ==
    (entry \in {"api", "service"} /\ DegenerateGears(GivenGearRatios))
        => (samples = 0 /\ pc # "returned")

(***************************************************************************)
(* C2.  On a calculator whose wheel diameter, rear-axle ratio or any gear  *)
(* ratio is zero or negative, none of run_tractive_calculation,            *)
(* calculate_plot_data and calculate_speed_for_shunting_load returns a     *)
(* normal result: the call never gets past the first of them.              *)
(***************************************************************************)
C2_DegenerateCalculatorEveryStepFails ==
    (calc # <<>> /\ DegenerateCalculator(calc[1])) => pc \notin AfterTraction

\* the drivetrain values of a sample
DriveOf(r) ==
    [engine_rpm |-> r.engine_rpm,
     interpolated |-> r.interpolated,
     torque_at_rpm |-> r.torque_at_rpm,
     max_traction_generated_n |-> r.max_traction_generated_n,
     max_traction_slipping_n |-> r.max_traction_slipping_n,
     actual_traction_n |-> r.actual_traction_n]

\* the samples of the curve sweep and of the speed scan held in the state
Samples ==
    {DriveOf(tractive_effort[k]) : k \in 1..Len(tractive_effort)}
    \cup {DriveOf(shunting_capability[k]) : k \in 1..Len(shunting_capability)}
    \cup UNION {{DriveOf(speed_table[k].scan[i]) : i \in 1..NumSamples} :
                   k \in 1..Len(speed_table)}

\* weightTon * mu * 1000 * 9.81 of the calculator in use
AdhesionLimit == MulDiv(calc[1].loco_gvw_ton * calc[1].friction_mu, 981, 100)

(***************************************************************************)
(* C3 (as amended).  At every sample of the curve sweep and of the speed   *)
(* scan the achievable force is min(generated force, adhesion limit), the  *)
(* adhesion limit being weightTon * mu * 1000 * 9.81; every value of the   *)
(* tractive-effort dataset is that force rounded to two decimals, hence at *)
(* most the adhesion limit and the generated force rounded to two decimals.*)
(***************************************************************************)
C3_AchievableIsMinRounded ==
    /\ \A s \in Samples :
           /\ s.max_traction_slipping_n = AdhesionLimit
           /\ s.actual_traction_n <= s.max_traction_generated_n
           /\ s.actual_traction_n <= s.max_traction_slipping_n
           /\ s.actual_traction_n \in
                  {s.max_traction_generated_n, s.max_traction_slipping_n}
    /\ \A k \in 1..Len(tractive_effort) :
           /\ tractive_effort[k].max_traction_generated_n =
                  MulDiv(2 * tractive_effort[k].torque_at_rpm,
                         tractive_effort[k].gear * calc[1].rear_axle_ratio,
                         calc[1].wheel_dia_m * 1000)
           /\ tractive_effort[k].value =
                  Round2(tractive_effort[k].actual_traction_n)
           /\ tractive_effort[k].value <=
                  Round2(tractive_effort[k].max_traction_slipping_n)
           /\ tractive_effort[k].value <=
                  Round2(tractive_effort[k].max_traction_generated_n)

\* C3 witness: a tractive-effort dataset with a row capped by adhesion and
\* a row capped by the generated force
C3_Witness ==
    /\ \E k \in 1..Len(tractive_effort) :
           /\ tractive_effort[k].max_traction_slipping_n <
                  tractive_effort[k].max_traction_generated_n
           /\ tractive_effort[k].value =
                  Round2(tractive_effort[k].max_traction_slipping_n)
    /\ \E k \in 1..Len(tractive_effort) :
           /\ tractive_effort[k].max_traction_generated_n <
                  tractive_effort[k].max_traction_slipping_n
           /\ tractive_effort[k].value =
                  Round2(tractive_effort[k].max_traction_generated_n)
    /\ speed_table # <<>>

\* C3 as stated: every value of the tractive-effort dataset is at most the
\* adhesion limit and at most the generated force of its sample
C3_ValueAtMostBothOperands ==
    /\ \A s \in Samples :
           s.actual_traction_n =
               Min2(s.max_traction_generated_n, s.max_traction_slipping_n)
    /\ \A k \in 1..Len(tractive_effort) :
           /\ tractive_effort[k].value <=
                  tractive_effort[k].max_traction_slipping_n
           /\ tractive_effort[k].value <=
                  tractive_effort[k].max_traction_generated_n

(***************************************************************************)
(* C4.  Every row of the shunting-capability dataset has value >= 0, and   *)
(* a row whose locomotive resistance is greater than or equal to the       *)
(* achievable force has value exactly 0.                                   *)
(***************************************************************************)
C4_ShuntingValueNeverNegative ==
    \A k \in 1..Len(shunting_capability) :
        /\ shunting_capability[k].value >= 0
        /\ shunting_capability[k].loco_resistance >=
               shunting_capability[k].actual_traction_n
           => shunting_capability[k].value = 0

\* C4 witness: a dataset with a row whose resistance exceeds the achievable
\* force, and one with a row that can move wagons
C4_Witness ==
    /\ \E k \in 1..Len(shunting_capability) :
           /\ shunting_capability[k].loco_resistance >
                  shunting_capability[k].actual_traction_n
           /\ shunting_capability[k].value = 0
    /\ \E k \in 1..Len(shunting_capability) :
           shunting_capability[k].value > 0

(***************************************************************************)
(* C5.  For a configuration with positive locomotive weight, trailing load *)
(* >= 0 and curve degree >= 0, max_speed_kmh of the table returned by      *)
(* calculate_speed_for_shunting_load never increases from a row to a row   *)
(* of greater slope.                                                       *)
(***************************************************************************)
C5_MaxSpeedNonIncreasingInSlope ==
    (/\ speed_table # <<>>
     /\ calc[1].loco_gvw_ton > 0
     /\ calc[1].shunting_load_t >= 0
     /\ calc[1].max_curve_deg >= 0)
        => \A j, k \in 1..Len(speed_table) :
               speed_table[j].slope < speed_table[k].slope
                   => speed_table[k].max_speed_kmh <= speed_table[j].max_speed_kmh

(***************************************************************************)
(* C6.  At every sample of both sweeps the torque used for the generated   *)
(* force keeps torque * engineRPM * 2 pi / 60000 <= peakPowerKw: where the *)
(* interpolated torque exceeds the power ceiling (at an engine rpm > 0) it *)
(* is replaced by peakPower * 60000 / (engineRPM * 2 pi), the torque that  *)
(* yields peakPower at that rpm, and otherwise (also at engine rpm 0) the  *)
(* interpolated torque is used unchanged.                                  *)
(***************************************************************************)
C6_TorqueLimitedByPeakPower ==
    \A s \in Samples :
        /\ PowerKw(s.engine_rpm, s.torque_at_rpm) <= calc[1].peak_power_kw
        /\ IF PowerKw(s.engine_rpm, s.interpolated) > calc[1].peak_power_kw
              /\ s.engine_rpm > 0
           THEN /\ s.torque_at_rpm =
                       MulDiv(calc[1].peak_power_kw, 30000000,
                              MulDiv(s.engine_rpm, PiMicro, 1000000))
                /\ s.torque_at_rpm < s.interpolated
                /\ PowerKw(s.engine_rpm, s.torque_at_rpm) =
                       calc[1].peak_power_kw
           ELSE s.torque_at_rpm = s.interpolated

\* C6 witness: a sweep with a sample whose torque was cut to the power
\* ceiling, a sample under the ceiling, and a sample at engine rpm 0
C6_Witness ==
    /\ tractive_effort # <<>>
    /\ speed_table # <<>>
    /\ \E s \in Samples :
           /\ s.engine_rpm > 0
           /\ s.torque_at_rpm < s.interpolated
    /\ \E s \in Samples :
           /\ s.engine_rpm > 0
           /\ s.torque_at_rpm = s.interpolated
    /\ \E s \in Samples :
           /\ s.engine_rpm = 0
           /\ s.torque_at_rpm = s.interpolated

\* the curve of a torque probe as the mapping it denotes
ProbeKeys == CurveKeys(probe.curve.items)

ProbeTorque(k) == CurveGet(probe.curve.items, k)

\* the greatest key at or below, and the least key at or above, the probed rpm
KeyBelow == SetMax({k \in ProbeKeys : 1000 * k <= probe.engine_rpm})

KeyAbove == SetMin({k \in ProbeKeys : 1000 * k >= probe.engine_rpm})

\* a probe of a non-empty curve that has returned
ProbeReturned == entry = "interpolate" /\ pc = "returned"

\* two curves holding the same (rpm, torque) items, in any insertion order
SameItems(c1, c2) ==
    /\ c1.kind = c2.kind
    /\ {c1.items[i] : i \in 1..Len(c1.items)} =
           {c2.items[i] : i \in 1..Len(c2.items)}

(***************************************************************************)
(* C7.  For a non-empty torque curve and an rpm between its minimum and    *)
(* maximum key, interpolate_torque returns a value between the torques of  *)
(* the two keys that bracket rpm, on the straight line between them; it    *)
(* returns exactly the curve's torque when rpm equals a key; and the       *)
(* result does not depend on the order in which the keys were inserted.    *)
(***************************************************************************)
C7_InterpolatesBetweenBracketingKeys ==
    (/\ ProbeReturned
     /\ 1000 * SetMin(ProbeKeys) <= probe.engine_rpm
     /\ probe.engine_rpm <= 1000 * SetMax(ProbeKeys))
        => /\ probe.out[1] >= Min2(ProbeTorque(KeyBelow), ProbeTorque(KeyAbove))
           /\ probe.out[1] <= Max2(ProbeTorque(KeyBelow), ProbeTorque(KeyAbove))
           /\ KeyBelow = KeyAbove => probe.out[1] = ProbeTorque(KeyBelow)
           /\ KeyBelow < KeyAbove =>
                  probe.out[1] =
                      ProbeTorque(KeyBelow)
                      + MulDiv(ProbeTorque(KeyAbove) - ProbeTorque(KeyBelow),
                               probe.engine_rpm - 1000 * KeyBelow,
                               1000 * (KeyAbove - KeyBelow))
           /\ \A d \in ProbeCurves :
                  SameItems(d, probe.curve)
                      => interpolate_torque(probe.engine_rpm, d).val =
                             probe.out[1]

\* C7 witness: a curve inserted out of order probed halfway between two of
\* its keys: 1500 Nm at 800 rpm between (400, 1200) and (1200, 1800)
C7_Witness ==
    /\ ProbeReturned
    /\ probe.curve = ShuffledCurve
    /\ probe.engine_rpm = 800000
    /\ probe.out = <<1500000>>

(***************************************************************************)
(* C8.  For a non-empty torque curve interpolate_torque returns the torque *)
(* of the minimum key for every rpm below it and the torque of the maximum *)
(* key for every rpm above it, and never a value outside the range of the  *)
(* curve's torques.                                                        *)
(***************************************************************************)
C8_ClampedAtTheEndpoints ==
    ProbeReturned
        => /\ probe.engine_rpm < 1000 * SetMin(ProbeKeys)
                  => probe.out[1] = ProbeTorque(SetMin(ProbeKeys))
           /\ probe.engine_rpm > 1000 * SetMax(ProbeKeys)
                  => probe.out[1] = ProbeTorque(SetMax(ProbeKeys))
           /\ probe.out[1] >= SetMin({ProbeTorque(k) : k \in ProbeKeys})
           /\ probe.out[1] <= SetMax({ProbeTorque(k) : k \in ProbeKeys})

\* C8 witness: a probe below the first key of a rising curve
C8_Witness ==
    /\ ProbeReturned
    /\ probe.curve = SmallCurve
    /\ probe.engine_rpm = 0
    /\ probe.out = <<1200000>>

(***************************************************************************)
(* C9.  interpolate_torque called with an empty curve fails with an error  *)
(* and returns no torque; a calculator whose inputs hold an empty, None or *)
(* absent torque curve is never constructed: the constructor fails with an *)
(* error and no traction, curve or shunting computation runs.              *)
(***************************************************************************)
C9_EmptyCurveIsAnError ==
    /\ (entry = "interpolate" /\ ~Truthy(probe.curve))
           => /\ probe.out = <<>>
              /\ pc \in {"probe", "failed"}
              /\ pc = "failed" => error = "ValueError"
    /\ (/\ entry \in {"api", "service"}
        /\ inputs # <<>>
        /\ \/ "torque_curve" \notin DOMAIN inputs[1]
           \/ ~Truthy(inputs[1].torque_curve))
           => /\ calc = <<>>
              /\ traction_snapshot = <<>>
              /\ tractive_effort = <<>>
              /\ shunting_capability = <<>>
              /\ speed_table = <<>>
              /\ samples = 0
              /\ pc \in {"mapped", "called", "failed"}
              /\ pc = "failed" => error = "ValueError"

\* C9 witness: the constructor has failed on inputs without a torque_curve
C9_Witness ==
    /\ entry = "service"
    /\ "torque_curve" \notin DOMAIN inputs[1]
    /\ pc = "failed"
    /\ error = "ValueError"

(***************************************************************************)
(* C10.  A /calculate request whose friction coefficient is outside (0, 1] *)
(* or whose min_rpm or max_rpm is not positive is rejected by the input    *)
(* validation: no calculator is constructed and no calculation step runs.  *)
(***************************************************************************)
C10_OutOfRangeRequestRejected ==
    (/\ entry = "api"
     /\ \/ ~(0 < raw[1].friction_mu /\ raw[1].friction_mu <= 1000)
        \/ raw[1].min_rpm <= 0
        \/ raw[1].max_rpm <= 0)
        => /\ pc \in {"received", "rejected"}
           /\ pc = "rejected" => (status = 422 /\ error = "ValidationError")
           /\ inputs = <<>>
           /\ calc = <<>>
           /\ traction_snapshot = <<>>
           /\ tractive_effort = <<>>
           /\ shunting_capability = <<>>
           /\ speed_table = <<>>
           /\ samples = 0

\* C10 witness: a request with friction just above 1 has been rejected
C10_Witness ==
    /\ entry = "api"
    /\ raw[1].friction_mu = 1001
    /\ pc = "rejected"
    /\ status = 422

\* the rows of both datasets and of the speed table, by their slope
RowSlopes ==
    {tractive_effort[k].slope : k \in 1..Len(tractive_effort)}
    \cup {shunting_capability[k].slope : k \in 1..Len(shunting_capability)}
    \cup {speed_table[k].slope : k \in 1..Len(speed_table)}

(***************************************************************************)
(* C11.  For a maximum slope >= 0, every row of both datasets and of the   *)
(* speed-vs-slope table has a slope in [0, maxSlopePercent] that is a      *)
(* multiple of 0.5, also when maxSlopePercent is not a multiple of 0.5.    *)
(***************************************************************************)
C11_SlopesWithinMaxSlope ==
    (calc # <<>> /\ calc[1].max_slope_percent >= 0)
        => \A x \in RowSlopes :
               /\ 0 <= x
               /\ x <= calc[1].max_slope_percent
               /\ x % 500 = 0

\* the rows of both datasets, each a multiple of NumSamples long
CurveRows == tractive_effort \o shunting_capability

(***************************************************************************)
(* C12 (as stated).  For each configured gear ratio every speed sampled by *)
(* the curve generator maps, by the sweep's own speed-to-rpm conversion in *)
(* that gear, to an engine rpm within [minRpm, maxRpm]; the first sample   *)
(* of a gear maps to minRpm and the last to maxRpm (to the nearest rpm).   *)
(***************************************************************************)
C12_SweepWithinRpmRange ==
    (calc # <<>> /\ 0 < calc[1].min_rpm /\ calc[1].min_rpm <= calc[1].max_rpm)
    => \A k \in 1..Len(CurveRows) :
        /\ CurveRows[k].engine_rpm >= 1000 * calc[1].min_rpm - 500
        /\ CurveRows[k].engine_rpm <= 1000 * calc[1].max_rpm + 500
        /\ k % NumSamples = 1 =>
               Abs(CurveRows[k].engine_rpm - 1000 * calc[1].min_rpm) <= 500
        /\ k % NumSamples = 0 =>
               Abs(CurveRows[k].engine_rpm - 1000 * calc[1].max_rpm) <= 500

(***************************************************************************)
(* C12 (amended).  For each swept gear ratio the curve generator samples   *)
(* from standstill: the first sample of a gear is speed 0 (engine rpm 0,   *)
(* whatever minRpm is), every sample maps to an engine rpm within          *)
(* [0, maxRpm], and the last sample maps to maxRpm (to the nearest rpm).   *)
(***************************************************************************)
C12_SweepFromStandstillToMaxRpm ==
    (calc # <<>> /\ 0 <= calc[1].max_rpm)
    => \A k \in 1..Len(CurveRows) :
        /\ CurveRows[k].engine_rpm >= 0
        /\ CurveRows[k].engine_rpm <= 1000 * calc[1].max_rpm + 500
        /\ k % NumSamples = 1 =>
               CurveRows[k].speed = 0 /\ CurveRows[k].engine_rpm = 0
        /\ k % NumSamples = 0 =>
               Abs(CurveRows[k].engine_rpm - 1000 * calc[1].max_rpm) <= 500

\* both datasets are there, the sweep of a gear starts below a positive
\* min_rpm and ends at max_rpm
C12_Witness ==
    /\ Len(tractive_effort) >= NumSamples
    /\ Len(shunting_capability) >= NumSamples
    /\ 0 < calc[1].min_rpm /\ calc[1].min_rpm < calc[1].max_rpm
    /\ tractive_effort[1].engine_rpm < 1000 * calc[1].min_rpm
    /\ Abs(tractive_effort[NumSamples].engine_rpm - 1000 * calc[1].max_rpm) <= 500

\* program points at which calculate_plot_data has returned both datasets
AfterPlots == {"plots_done", "table_done", "returned"}

\* the slope steps of the sweep of the calculator in use
SlopeSteps == arange(calc[1].max_slope_percent + SlopeStep, SlopeStep)

\* ds holds NumSamples rows for every (slope step, configured gear) pair
FullLength(ds) ==
    Len(ds) = Len(SlopeSteps) * Len(calc[1].gear_ratios) * NumSamples

\* row k of ds belongs to the slope step and the configured gear that its
\* position says, and the speeds of its block ascend evenly from row to row
InSweepOrder(ds) ==
    \A k \in 1..Len(ds) :
        LET perSlope == Len(calc[1].gear_ratios) * NumSamples
            s == ((k - 1) \div perSlope) + 1
            g == (((k - 1) \div NumSamples) % Len(calc[1].gear_ratios)) + 1
        IN  /\ s <= Len(SlopeSteps) /\ ds[k].slope = SlopeSteps[s]
            /\ ds[k].gear = calc[1].gear_ratios[g]
            /\ k % NumSamples # 0 => ds[k].speed < ds[k + 1].speed
            /\ k % NumSamples \in 1..(NumSamples - 2) =>
                   Abs((ds[k + 2].speed - ds[k + 1].speed)
                       - (ds[k + 1].speed - ds[k].speed)) <= 1

(***************************************************************************)
(* C13.  Each dataset returned by calculate_plot_data holds exactly 100    *)
(* rows for every (slope step, configured gear ratio) pair, so its length  *)
(* is slopeSteps * gearCount * 100; the rows are ordered by slope          *)
(* ascending, then by gear in configured order, then by speed ascending    *)
(* with evenly spaced speeds.                                              *)
(***************************************************************************)
C13_HundredRowsPerSlopeAndGear ==
    (entry \in {"api", "service"} /\ pc \in AfterPlots)
        => /\ FullLength(tractive_effort)
           /\ FullLength(shunting_capability)
           /\ InSweepOrder(tractive_effort)
           /\ InSweepOrder(shunting_capability)

\* the sampled speeds of a table row at which the achievable force covers
\* the resistance of the locomotive and of the trailing load
QualifyingSpeeds(row) ==
    {row.scan[i].speed : i \in {j \in 1..NumSamples : row.scan[j].qualifies}}

(***************************************************************************)
(* C14.  For each slope row the max speed returned by                      *)
(* calculate_speed_for_shunting_load is (before rounding) the largest of   *)
(* the 100 sampled speeds at which achievable force >= locomotive          *)
(* resistance + trailing-load resistance, also when a lower sampled speed  *)
(* does not qualify, and 0 when no sampled speed qualifies.                *)
(***************************************************************************)
C14_MaxSpeedIsLargestQualifyingSample ==
    \A k \in 1..Len(speed_table) :
        speed_table[k].max_speed_kmh =
            Round2Speed(IF QualifyingSpeeds(speed_table[k]) = {} THEN 0
                        ELSE SetMax(QualifyingSpeeds(speed_table[k])))

\* the speeds the shunting analyzer tests, with the engine rpm of each
ScanSamples ==
    UNION {{[speed |-> speed_table[k].scan[i].speed,
             engine_rpm |-> speed_table[k].scan[i].engine_rpm] :
               i \in 1..NumSamples} : k \in 1..Len(speed_table)}

(***************************************************************************)
(* C15.  With positive divisors and 0 < minRpm <= maxRpm, every speed the  *)
(* shunting analyzer tests lies in the speed range the curve generator     *)
(* samples for the highest configured gear ratio, so it maps, in the       *)
(* highest gear, to an engine rpm not above maxRpm (to the nearest rpm);   *)
(* this holds for configurations with more than one gear ratio as well.    *)
(***************************************************************************)
C15_ScanWithinHighestGearRange ==
    (/\ calc # <<>>
     /\ ~DegenerateCalculator(calc[1])
     /\ 0 < calc[1].min_rpm /\ calc[1].min_rpm <= calc[1].max_rpm)
    => \A x \in ScanSamples :
        /\ x.speed >= CurveMinSpeed(calc[1], SeqMax(calc[1].gear_ratios))
        /\ x.speed <= SpeedAtRpm(calc[1], calc[1].max_rpm,
                                 SeqMax(calc[1].gear_ratios))
        /\ x.engine_rpm <= 1000 * calc[1].max_rpm + 500

\* rolling + gradient + curvature resistance of the locomotive in use
LocoRunning(speed_kmh, slope_percent) ==
    rolling_resistance_loco(speed_kmh, calc[1].loco_gvw_ton, calc[1].num_axles)
    + gradient_resistance(calc[1].loco_gvw_ton, slope_percent)
    + curvature_resistance(calc[1].loco_gvw_ton, calc[1].max_curve_deg)

\* rolling + gradient + curvature resistance of weight_ton of wagons
WagonRunning(weight_ton, speed_kmh, slope_percent) ==
    rolling_resistance_wagon(speed_kmh, weight_ton)
    + gradient_resistance(weight_ton, slope_percent)
    + curvature_resistance(weight_ton, calc[1].max_curve_deg)

(***************************************************************************)
(* C16.  The resistance the shunting analyzer compares with the achievable *)
(* force is rolling + gradient + curvature resistance of the locomotive    *)
(* plus rolling + gradient + curvature resistance of the trailing load,    *)
(* with no starting term; the locomotive and 1-tonne-wagon resistances of  *)
(* the curve generator are the same three terms plus the starting          *)
(* resistance, 6 * W * g for the locomotive and 4 * W * g for the wagon.   *)
(***************************************************************************)
C16_StartingResistanceOnlyInCurves ==
    /\ \A k \in 1..Len(speed_table) : \A i \in 1..NumSamples :
           LET x == speed_table[k].scan[i]
           IN  /\ x.total_resistance_n =
                      LocoRunning(x.speed, speed_table[k].slope)
                      + WagonRunning(calc[1].shunting_load_t, x.speed,
                                     speed_table[k].slope)
               /\ x.qualifies <=> x.actual_traction_n >= x.total_resistance_n
    /\ \A k \in 1..Len(CurveRows) :
           LET r == CurveRows[k]
           IN  r.loco_resistance =
                   LocoRunning(r.speed, r.slope)
                   + MulDiv(6 * calc[1].loco_gvw_ton, 981, 100)
    /\ \A k \in 1..Len(shunting_capability) :
           LET r == shunting_capability[k]
           IN  r.actual_traction_n - r.loco_resistance > 0 =>
                   /\ r.wagon_resistance =
                          WagonRunning(1000, r.speed, r.slope) + 4 * 9810
                   /\ r.value = Round2(MulDiv(r.actual_traction_n
                                                - r.loco_resistance, 1000,
                                              r.wagon_resistance))

\* datasets and table of a run on a slope with a trailing load, so that the
\* rolling and gradient terms of locomotive and load and both starting
\* terms are positive
C16_Witness ==
    /\ pc = "table_done"
    /\ Len(CurveRows) > 0
    /\ calc[1].loco_gvw_ton > 0 /\ calc[1].shunting_load_t > 0
    /\ \E k \in 1..Len(speed_table) :
           /\ speed_table[k].slope > 0
           /\ speed_table[k].scan[NumSamples].total_resistance_n
                  > LocoRunning(speed_table[k].scan[NumSamples].speed,
                                speed_table[k].slope)
    /\ CurveRows[1].loco_resistance > LocoRunning(0, CurveRows[1].slope)
    /\ \E k \in 1..Len(shunting_capability) : shunting_capability[k].value > 0

\* trailing loads of the calculators compared with the one in use
MaxOtherLoad == 2
OtherLoads == {1000000 * l : l \in 0..MaxOtherLoad}

\* the calculator built from the inputs of the one in use with another
\* trailing load
WithLoad(l) ==
    NewCalculator([k \in DOMAIN calc[1].inputs \cup {"shunting_load_t"} |->
                     IF k = "shunting_load_t" THEN l
                     ELSE calc[1].inputs[k]]).calc[1]

(***************************************************************************)
(* C17.  The shunting-capability dataset does not depend on the trailing   *)
(* load: a calculator that differs from the one in use only in             *)
(* shunting_load_t (0 included) produces the identical dataset.  Compared  *)
(* when calculate_plot_data has just returned it; no later step changes it.*)
(***************************************************************************)
C17_ShuntingDatasetIgnoresTrailingLoad ==
    (entry \in {"api", "service"} /\ pc = "plots_done")
        => \A l \in OtherLoads :
               calculate_plot_data(WithLoad(l)).val[1].shunting_capability_plot
                   = shunting_capability

\* a returned dataset with a positive capacity, of a calculator whose
\* trailing load differs from the 1-tonne probe and from the other loads
C17_Witness ==
    /\ entry \in {"api", "service"} /\ pc \in AfterPlots
    /\ \E k \in 1..Len(shunting_capability) : shunting_capability[k].value > 0
    /\ \E l \in OtherLoads : l # calc[1].shunting_load_t
    /\ calc[1].shunting_load_t # WagonProbeTon(calc[1])

\* the keys of the traction snapshot of the result
SnapshotKeys == DOMAIN traction_snapshot[1]

\* the distinct gear ratios the calculator in use was configured with
ConfiguredGears == {calc[1].gear_ratios[i] : i \in 1..Len(calc[1].gear_ratios)}

(***************************************************************************)
(* C18.  The result of the primary analysis holds, next to the two         *)
(* datasets and the speed table, a traction snapshot that is a map from    *)
(* the configured gear ratios to their three maximum speeds: it has one    *)
(* entry per configured gear ratio and no entry that is not such a map     *)
(* (a force or a message).                                                 *)
(***************************************************************************)
C18_SnapshotMapsEachGearToSpeeds ==
    (entry \in {"api", "service"} /\ pc = "returned")
        => /\ traction_snapshot # <<>>
           /\ Cardinality(SnapshotKeys) = Cardinality(ConfiguredGears)
           /\ SnapshotKeys \cap {"max_traction_generated_n",
                                 "max_traction_slipping_n",
                                 "result_message"} = {}

\* the calculator request i was given when it was built
Fresh(i) == NewCalculator(reqs[i].inputs).calc

InScenario ==
    /\ calc # <<>>
    /\ calc[1].wheel_dia_m = 1250 /\ calc[1].rear_axle_ratio = 3500
    /\ calc[1].gear_ratios = <<8500>>
    /\ calc[1].peak_power_kw = 2000000 /\ calc[1].friction_mu = 350
    /\ calc[1].min_rpm = 400 /\ calc[1].max_rpm = 2100
    /\ calc[1].torque_curve = BigCurve
    /\ calc[1].max_slope_percent = 0 /\ calc[1].max_curve_deg = 0
    /\ Len(tractive_effort) = NumSamples

\* T: the torque the interpolator returns at the engine rpm of the lowest
\* nonzero speed sample
ScenarioTorque ==
    interpolate_torque(tractive_effort[2].engine_rpm, BigCurve).val

\* min(2 * T * 8.5 * 3.5 / 1.25, weightTon * 0.35 * 1000 * 9.81)
ScenarioForce ==
    Min2(MulDiv(2 * ScenarioTorque, 8500 * 3500, 1250 * 1000),
         MulDiv(calc[1].loco_gvw_ton * 350, 981, 100))

(***************************************************************************)
(* C22 (as stated).  In the end-to-end scenario the tractive-effort row at *)
(* speed 0 has value min(2 * T * 8.5 * 3.5 / 1.25,                         *)
(* weightTon * 0.35 * 1000 * 9.81), T being the torque the interpolator    *)
(* returns at the engine rpm of the lowest nonzero speed sample.           *)
(***************************************************************************)
C22_ScenarioRowAtSpeedZero ==
    InScenario
        => /\ tractive_effort[1].speed = 0
           /\ tractive_effort[2].speed > 0
           /\ tractive_effort[1].value = ScenarioForce

(***************************************************************************)
(* C22 (amended).  In the end-to-end scenario the tractive-effort row at   *)
(* speed 0 has the value min(2 * T * 8.5 * 3.5 / 1.25,                     *)
(* weightTon * 0.35 * 1000 * 9.81) rounded to two decimals, T being the    *)
(* torque the interpolator returns at the engine rpm of the lowest nonzero *)
(* speed sample, which is the torque at rpm 0 as well (both lie below the  *)
(* first curve key).                                                       *)
(***************************************************************************)
C22_ScenarioRowAtSpeedZeroRounded ==
    InScenario
        => /\ tractive_effort[1].speed = 0
           /\ tractive_effort[2].speed > 0
           /\ tractive_effort[1].value = Round2(ScenarioForce)
           /\ tractive_effort[1].engine_rpm = 0
           /\ tractive_effort[1].torque_at_rpm = ScenarioTorque

\* the scenario with a weight whose adhesion limit is above the generated
\* force: the row at speed 0 holds 2 * 12000 * 8.5 * 3.5 / 1.25 = 571200 N
C22_Witness ==
    /\ InScenario
    /\ ScenarioTorque = 12000000
    /\ tractive_effort[1].value = 571200000
    /\ tractive_effort[1].value < tractive_effort[1].max_traction_slipping_n

(***************************************************************************)
(* C23.  Input validation rejects every request whose rear_axle_ratio is   *)
(* zero or negative: such a request never gets past validation, and a      *)
(* calculator reached through the /calculate endpoint always has a         *)
(* strictly positive rear-axle ratio.                                      *)
(***************************************************************************)
C23_NonPositiveAxleRatioRejected ==
    entry = "api"
        => /\ raw[1].rear_axle_ratio <= 0 => pc \in {"received", "rejected"}
           /\ calc # <<>> => calc[1].rear_axle_ratio > 0

\* field k of the raw inputs of the direct call was not provided
NotProvided(k) == k \notin DOMAIN call.args \/ call.args[k] = None

(***************************************************************************)
(* C24.  In the inputs returned by validate_vehicle_performance_inputs,    *)
(* max_rpm is 2500 whenever the raw max_rpm is not provided (absent or     *)
(* None) and min_rpm is 100 whenever the raw min_rpm is not provided;      *)
(* otherwise they equal the raw values.  Neither is ever None.             *)
(***************************************************************************)
C24_RpmDefaultsApplied ==
    (entry = "validate" /\ pc = "returned")
        => /\ call.out[1].val.max_rpm =
                  (IF NotProvided("max_rpm") THEN 2500 ELSE call.args.max_rpm)
           /\ call.out[1].val.min_rpm =
                  (IF NotProvided("min_rpm") THEN 100 ELSE call.args.min_rpm)
           /\ call.out[1].val.max_rpm # None
           /\ call.out[1].val.min_rpm # None


\* ---------------------------------------------------------------------
\* C25: for positive mass, power, gear ratio and wheel radius,
\* calculate_max_speed_for_conditions returns the highest of the tested
\* speeds 5, 10, ..., 195 km/h at which the tractive force is at least the
\* total resistance, and 0 when no tested speed qualifies; no tested speed
\* above a non-qualifying one qualifies, so the break skips nothing
\* ---------------------------------------------------------------------
PositiveSpeeds == {5 * k : k \in 1..39}

QualifyingTested(a) ==
    {v \in PositiveSpeeds :
        ScanTractiveForce(a, v) >= ScanTotalResistance(a, v)}

MaxSpeedReturned ==
    /\ entry = "max_speed"
    /\ pc = "returned"
    /\ call.args.mass_kg > 0
    /\ call.args.available_power_kw > 0
    /\ call.args.gear_ratio > 0
    /\ call.args.wheel_radius_m > 0

C25_MaxSpeedIsHighestQualifyingTested ==
    MaxSpeedReturned =>
        \E q \in {QualifyingTested(call.args)} :
            /\ call.out[1].val = SetMax(q \cup {0})
            /\ \A v \in q : \A w \in PositiveSpeeds : w < v => w \in q

\* a call where some tested speeds qualify and some do not
C25_Witness ==
    /\ MaxSpeedReturned
    /\ call.out[1].val \in PositiveSpeeds \ {195}
    /\ call.args.curve_radius_m = 300000

\* a call where no tested speed qualifies
C25_NoneQualifies ==
    MaxSpeedReturned /\ QualifyingTested(call.args) = {}


\* ---------------------------------------------------------------------
\* C26: calculate_speed_vs_slope_table returns exactly 11 rows whose
\* slope_percent values run from 0 to max_slope in 10 equal steps, each row
\* holding one speed column per configured gear ratio
\* ---------------------------------------------------------------------
TableReturned == entry = "slope_table" /\ pc = "returned"

TableMaxSlope == Get(call.args, "max_slope", 10000)

TableGears ==
    {Get(call.args, "gear_ratios", <<1000>>)[j] :
         j \in 1..Len(Get(call.args, "gear_ratios", <<1000>>))}

ElevenRowsInEqualSteps(rows) ==
    /\ Len(rows) = 11
    /\ rows[1].slope_percent = 0
    /\ rows[11].slope_percent = TableMaxSlope
    /\ \A i \in 1..10 :
           rows[i + 1].slope_percent - rows[i].slope_percent
               = rows[2].slope_percent - rows[1].slope_percent
    /\ \A i \in 1..11 : DOMAIN rows[i].gear_speed_kmh = TableGears

Ascending(rows) ==
    \A i \in 1..(Len(rows) - 1) :
        rows[i].slope_percent <= rows[i + 1].slope_percent

SpeedsNonIncreasing(rows) ==
    \A i \in 1..(Len(rows) - 1) : \A g \in TableGears :
        rows[i + 1].gear_speed_kmh[g] <= rows[i].gear_speed_kmh[g]

\* C26 as stated: the slopes are in ascending order whatever max_slope is,
\* and for max_slope >= 0 each gear's speed column is non-increasing
C26_ElevenRowsAscending ==
    TableReturned =>
        \E rows \in {call.out[1].val} :
            /\ ElevenRowsInEqualSteps(rows)
            /\ Ascending(rows)
            /\ TableMaxSlope >= 0 => SpeedsNonIncreasing(rows)

\* C26 amended: the slopes ascend, and each gear's speed column is
\* non-increasing, for max_slope >= 0; for a negative max_slope the
\* slopes descend from 0 to max_slope
C26_ElevenRowsAscendingForNonNegativeMaxSlope ==
    TableReturned =>
        \E rows \in {call.out[1].val} :
            /\ ElevenRowsInEqualSteps(rows)
            /\ TableMaxSlope >= 0 =>
                   Ascending(rows) /\ SpeedsNonIncreasing(rows)
            /\ TableMaxSlope < 0 =>
                   \A i \in 1..10 :
                       rows[i + 1].slope_percent < rows[i].slope_percent

\* a table of two gears over a positive max_slope whose speeds fall
C26_Witness ==
    /\ TableReturned
    /\ TableMaxSlope > 0
    /\ Cardinality(TableGears) = 2
    /\ \A g \in TableGears :
           call.out[1].val[11].gear_speed_kmh[g]
               < call.out[1].val[1].gear_speed_kmh[g]


\* ---------------------------------------------------------------------
\* C27: run_tractive_calculation reports "Limited by slipping" exactly
\* when 2 * maxTorque * max(gearRatios) * rearAxleRatio / wheelDiameter is
\* strictly greater than weightTon * mu * 1000 * 9.81, and "Not limited by
\* slipping" otherwise; the reported generated force is never negative
\* ---------------------------------------------------------------------
\* the largest torque of the curve of the calculator in use
MaxCurveTorque ==
    SetMax({calc[1].torque_curve.items[i][2] :
                i \in 1..Len(calc[1].torque_curve.items)})

\* 2 * maxTorque * max(gearRatios) * rearAxleRatio / wheelDiameter
ForceAtMaxTorque ==
    MulDiv(2 * MaxCurveTorque,
           SeqMax(calc[1].gear_ratios) * calc[1].rear_axle_ratio,
           calc[1].wheel_dia_m * 1000)

C27_LimitedBySlippingIffGeneratedAboveLimit ==
    traction_snapshot # <<>> =>
        /\ traction_snapshot[1].result_message =
               IF ForceAtMaxTorque > AdhesionLimit
               THEN "Limited by slipping" ELSE "Not limited by slipping"
        /\ traction_snapshot[1].max_traction_generated_n >= 0
        /\ traction_snapshot[1].max_traction_generated_n
               = Max2(ForceAtMaxTorque, 0)

\* a snapshot limited by slipping
C27_Witness ==
    /\ traction_snapshot # <<>>
    /\ traction_snapshot[1].result_message = "Limited by slipping"
    /\ ForceAtMaxTorque > AdhesionLimit

\* a snapshot not limited by slipping
C27_NotLimited ==
    /\ traction_snapshot # <<>>
    /\ traction_snapshot[1].result_message = "Not limited by slipping"
    /\ 0 < ForceAtMaxTorque
    /\ ForceAtMaxTorque < AdhesionLimit

\* a negative generated force reported as 0
C27_NegativeReportedAsZero ==
    /\ traction_snapshot # <<>>
    /\ ForceAtMaxTorque < 0
    /\ traction_snapshot[1].max_traction_generated_n = 0


\* ---------------------------------------------------------------------
\* C28: a calculator built with a curve given as a radius in metres uses
\* the curve degree 1750 / radius, for every curve-unit value that the
\* input schema documents as meaning radius in metres ("radius",
\* schemas.py 85-87); a radius of 0 is left as degree 0
\* ---------------------------------------------------------------------
\* the curve-unit value the schema documents for a radius in metres, and
\* the one the calculator converts
RadiusUnits == {"radius", "m"}

GivenAsRadius ==
    /\ calc # <<>>
    /\ "curve_unit" \in DOMAIN calc[1].inputs
    /\ calc[1].inputs.curve_unit \in RadiusUnits

C28_RadiusConvertedToDegree ==
    GivenAsRadius =>
        calc[1].max_curve_deg =
            IF calc[1].inputs.max_curve = 0 THEN 0
            ELSE MulDiv(1750000, 1000, calc[1].inputs.max_curve)

\* the part that holds: the unit "m" is converted, a radius of 0 is not
C28_UnitMConverted ==
    (GivenAsRadius /\ calc[1].inputs.curve_unit = "m") =>
        calc[1].max_curve_deg =
            IF calc[1].inputs.max_curve = 0 THEN 0
            ELSE MulDiv(1750000, 1000, calc[1].inputs.max_curve)


\* ---------------------------------------------------------------------
\* C29: in the /calculate endpoint an error raised while mapping the
\* inputs, constructing the calculator or running a calculation step ends
\* the request with HTTP 500 carrying the error, and no partial results
\* are returned; the steps run in the order traction calculation, curve
\* generation (both datasets), shunting speed table
\* ---------------------------------------------------------------------
\* program points from which each result of the handler exists
AfterTractivePlot == {"tractive_plot_done", "plots_done", "table_done", "returned"}

AfterShuntingPlot == {"plots_done", "table_done", "returned"}

AfterTable == {"table_done", "returned"}

C29_ErrorsEndWith500AndNoResults ==
    entry = "api" =>
        /\ traction_snapshot # <<>> <=> pc \in AfterTraction
        /\ tractive_effort # <<>> => pc \in AfterTractivePlot
        /\ shunting_capability # <<>> => pc \in AfterShuntingPlot
        /\ speed_table # <<>> => pc \in AfterTable
        /\ pc = "failed" <=> status = 500
        /\ pc = "failed" => error \notin {"none", "ValidationError"}
        /\ pc = "returned" <=> status = 200
        /\ status = 200 => error = "none"

\* a request that failed in a calculation step after the traction
\* calculation had returned
C29_Witness ==
    /\ entry = "api"
    /\ pc = "failed"
    /\ status = 500
    /\ calc = <<>>
    /\ inputs # <<>>
    /\ Truthy(inputs[1].torque_curve)
    /\ run_tractive_calculation(NewCalculator(inputs[1]).calc[1]).err = "none"

\* a request that failed in the constructor
C29_FailedInConstructor ==
    /\ entry = "api"
    /\ pc = "failed"
    /\ status = 500
    /\ ~Truthy(inputs[1].torque_curve)


\* ---------------------------------------------------------------------
\* C30: for a legacy request carrying valid locomotive fields,
\* legacy_vehicle_performance_calculate returns the results in the legacy
\* format: a traction snapshot, a performance_data entry and
\* calculation_status "success"
\* ---------------------------------------------------------------------
ValidLegacyFields ==
    /\ entry = "legacy"
    /\ \A k \in {"loco_gvw", "peak_power", "wheel_dia", "num_axles",
                  "friction_mu"} : call.args[k] # None
    /\ call.args.gear_ratios # <<>>
    /\ SchemaAccepts(ModernInput(call.args))

C30_LegacyRequestSucceeds ==
    (ValidLegacyFields /\ call.out # <<>>) =>
        /\ call.out[1].status = 200
        /\ call.out[1].body # <<>>
        /\ call.out[1].body[1].calculation_status = "success"
        /\ call.out[1].body[1].traction_snapshot # <<>>

\* what the handler does: every legacy request is answered with 400
C30_EveryLegacyRequestFails ==
    (entry = "legacy" /\ call.out # <<>>) =>
        /\ call.out[1].status = 400
        /\ call.out[1].body = <<>>

====
